---- MODULE Spec2Model ----
(***************************************************************************)
(* rs-rivus, crate rivus-sqlx: the task-scoped transaction context         *)
(* (db_pool.rs), the CRUD dispatch built on it (orm/sqlx_impl.rs) and the  *)
(* connection pools behind the logical database handles.                   *)
(*                                                                         *)
(* A fiber is one future making calls; the fibers of one unit of work run  *)
(* in the same task and so share that task's TRANSACTION_CONTEXT.  Every   *)
(* .await of the source is a step boundary of the model.                   *)
(***************************************************************************)
EXTENDS Integers, FiniteSets, Sequences, TLC

\* ---------------------------------------------------------------- bounds
PoolSize == 2    \* connections of pool 1 (max_open_conns)
MaxCalls == 3    \* calls made in one run of Spec
MaxBatch == 2    \* items of one batch_create
MaxOpens == 3    \* pools created by ConnManager::open in one run of SpecReg
MaxRenders == 3  \* render_template calls in one run of SpecTpl
MaxList == 3     \* elements of a list parameter in SpecRender
MaxRows == 2     \* rows a statement yields in SpecFn
MaxFiles == 2    \* files of the directory parse_mappers_recursively walks
MaxConns == 3    \* connections add_connection registers in one run of SpecWs
MaxQueue == 1    \* messages a connection's channel holds
MaxRetries == 2  \* largest small max_retries an HttpClient is built with
MaxTasks == 2    \* handle_connection calls

\* ------------------------------------------------------------ the domain
Fibers == {1, 2, 3}
Units  == {1, 2, 3}
Names  == {"a", "b"}
Pools  == {1, 2}

\* The handles the callers hold (DbPool {name, inner}).  Handles 1 and 2
\* carry the same logical name over different pools; handle 3 is the
\* DbPoolInner::Other placeholder.
Handles ==
    << [name |-> "a", kind |-> "sqlite",   pool |-> 1],
       [name |-> "a", kind |-> "postgres", pool |-> 2],
       [name |-> "b", kind |-> "other",    pool |-> 0] >>
HandleIds == DOMAIN Handles

\* Pool 1 owns connections 1..PoolSize, pool 2 owns one connection.
Conns     == 1 .. (PoolSize + 1)
NoConn    == 0
PoolOf(c) == IF c <= PoolSize THEN 1 ELSE 2
KindOf(c) == IF PoolOf(c) = 1 THEN "sqlite" ELSE "postgres"

CrudKinds  == {"get", "list", "create", "batch_create", "update", "delete", "execute_raw"}
ReadKinds  == {"get", "list"}
WriteKinds == CrudKinds \ ReadKinds
TxOps      == {"start", "commit", "rollback"}

\* The registry of ConnManager: the names and type strings given to open,
\* and the callers of its functions.
RegNames   == {"default", "x"}
RegTypes   == {"sqlite", "bogus"}
RegCallers == {1, 2}
\* DbPool::new: the DbPoolInner variant built for a type string.
InnerOf(t) == IF t \in {"mysql", "sqlite", "postgres"} THEN t ELSE "other"
\* A DbPool value {name, inner}; id tells the pools of successive opens apart.
DbPoolOf(n, t, k) == [name |-> n, type |-> t, inner |-> InnerOf(t), id |-> k]
\* Option::None of by / get / map.remove.
NoPool == [name |-> "", type |-> "", inner |-> "none", id |-> 0]
NoRegCall == [c |-> 0, op |-> "none", n |-> "", r |-> "none", h |-> NoPool]
NoArg == [n |-> "", t |-> "", h |-> NoPool]

\* The template cache: template names, the threads that render, and the
\* entry of a name that is not cached.
TplNames   == {"main", "part"}
TplThreads == {1, 2}
NoEntry  == [has |-> FALSE, content |-> "", ast |-> <<>>]
NoTplArg == [n |-> "", content |-> "", ast |-> <<>>, parsed |-> FALSE]
NoTplCall ==
    [th |-> 0, op |-> "none", n |-> "", content |-> "", parsed |-> FALSE,
     sql |-> <<>>, params |-> <<>>, err |-> "", ret |-> "none"]

\* SpecRender: nothing picked, nothing rendered.
NoInput  == [t |-> 0, root |-> [map |-> FALSE, m |-> <<>>]]
NoOutput == [done |-> FALSE, sql |-> <<>>, params |-> <<>>, locals |-> <<>>, err |-> ""]

\* SpecFn: no function called, nothing returned.
NoFnCall   == [fn |-> "none"]
NoFnResult == [done |-> FALSE]

\* SpecWs (crate rivus-ws): the clients, the message bodies sent to them.
Clients == {1, 2}
Bodies  == {"x"}
\* No send_message under way, no call returned.
NoSend   == [cli |-> 0, body |-> "", todo |-> {}, failed |-> {}]
NoWsCall == [op |-> "none"]
\* No handle_connection running for a connection id.
NoTask   == [st |-> "none", stalled |-> FALSE, waiting |-> {}, handler |-> FALSE,
             closes |-> 0]

VARIABLES
    unitOf,               \* fiber -> the unit of work (task) it runs in
    scope,                \* unit -> TRUE while inside TRANSACTION_CONTEXT.scope
    TRANSACTION_CONTEXT,  \* unit -> name -> connection of the open transaction
    idle,                 \* connections lying in their pool
    inTx,                 \* connection -> a BEGIN is open on it
    pending,              \* connection -> effects written inside the open BEGIN
    db,                   \* pool -> committed effects (an effect is named by its unit)
    pc,                   \* fiber -> where its current call stands
    op,                   \* fiber -> the call in progress
    hd,                   \* fiber -> handle of the call in progress
    arc,                  \* fiber -> connection the call holds (Arc clone or PoolConnection)
    left,                 \* fiber -> batch items still to create
    last,                 \* the call that returned in the last step, if one did
    calls,                \* calls made so far (Spec)
    phase,                \* fiber -> position in the scripted unit of work (SpecIso)
    DBS,                  \* registry: name -> the DbPool registered under it
    made,                 \* pools created so far by DbPool::new
    closed,               \* pools that ConnManager::close has closed
    rpc,                  \* registry caller -> where its call stands
    rarg,                 \* registry caller -> arguments and pool of the call in progress
    rlast,                \* the registry call that returned in the last step
    opened,               \* name -> type of the last open that returned Ok, "" after a close
    raced,                \* name -> two open/close calls on it have overlapped
    TEMPLATE_CACHE,       \* template name -> the cached entry (content, AST)
    parses,               \* templates parsed so far
    renders,              \* render_template calls made so far
    tpc,                  \* thread -> where its render_template call stands
    targ,                 \* thread -> name, content and AST of the call in progress
    tlast,                \* the template call that returned in the last step
    tover,                \* template name -> two calls on it have overlapped
    rin,                  \* SpecRender: the template and parameter picked
    rout,                 \* SpecRender: what render made of them
    fin,                  \* SpecFn: the function called and its arguments
    fout,                 \* SpecFn: what the function returned
    CONN_MGR,             \* the ConnectionManager behind the global mutex
    chan,                 \* connection id -> its mpsc channel
    sending,              \* the send_message holding the mutex, if one does
    wlast,                \* the manager call that returned in the last step
    hc                    \* the handle_connection call of each connection id

connVars  == <<idle, inTx, pending, db>>
fiberVars == <<pc, op, hd, arc, left>>
txVars   == <<unitOf, scope, TRANSACTION_CONTEXT, idle, inTx, pending, db,
              pc, op, hd, arc, left, last, calls, phase>>
regVars  == <<DBS, made, closed, rpc, rarg, rlast, opened, raced>>
tplVars  == <<TEMPLATE_CACHE, parses, renders, tpc, targ, tlast, tover>>
renVars  == <<rin, rout>>
fnVars   == <<fin, fout>>
wsVars   == <<CONN_MGR, chan, sending, wlast, hc>>
vars == <<txVars, regVars, tplVars, renVars, fnVars, wsVars>>

EmptyMap == [n \in Names |-> NoConn]
NoCall == [f |-> 0, op |-> "none", h |-> 0, r |-> "none", c |-> NoConn]

\* ---------------------------------------------------------- ownership
\* A connection is owned while a map entry (Arc in the HashMap) or a call
\* (Arc clone, or the PoolConnection before it is wrapped) refers to it;
\* sqlx returns a PoolConnection to its pool when its last owner drops it,
\* in whatever state the connection is.
Held(c, m, a) ==
    \/ \E u \in Units, n \in Names : m[u][n] = c
    \/ \E g \in Fibers : a[g] = c

\* Variant: a dropped connection never reaches its pool.
Released_Never(cs, m, a) == {}
Released(cs, m, a) == {c \in cs : c # NoConn /\ ~Held(c, m, a)}

\* Variant: one map shared by every fiber.
ScopeKey_Global(f) == 1
\* The task-local a fiber sees.
ScopeKey(f) == unitOf[f]

FibersOf(u) == {f \in Fibers : unitOf[f] = u}

TypeOK ==
    /\ unitOf \in [Fibers -> Units]
    /\ scope \in [Units -> BOOLEAN]
    /\ TRANSACTION_CONTEXT \in [Units -> [Names -> Conns \cup {NoConn}]]
    /\ idle \subseteq Conns
    /\ inTx \in [Conns -> BOOLEAN]
    /\ pending \in [Conns -> SUBSET Units]
    /\ db \in [Pools -> SUBSET Units]
    /\ pc \in [Fibers -> {"idle", "acquire", "begin", "lock", "exec", "pool", "next", "dead"}]
    /\ op \in [Fibers -> CrudKinds \cup TxOps \cup {"none"}]
    /\ hd \in [Fibers -> HandleIds \cup {0}]
    /\ arc \in [Fibers -> Conns \cup {NoConn}]
    /\ left \in [Fibers -> 0 .. (MaxBatch + 1)]
    /\ last.f \in Fibers \cup {0}
    /\ last.op \in TxOps \cup {"crud", "unwrap", "none"}
    /\ last.c \in Conns \cup {NoConn}
    /\ calls \in Nat
    /\ \A n \in RegNames : DBS[n] = NoPool \/ DBS[n].id \in 1 .. made
    /\ made \in 0 .. MaxOpens
    /\ \A h \in closed : h.id \in 1 .. made
    /\ rpc \in [RegCallers -> {"idle", "new", "closing"}]
    /\ rlast.op \in {"open", "by", "get", "close", "none"}
    /\ opened \in [RegNames -> RegTypes \cup {""}]
    /\ raced \in [RegNames -> BOOLEAN]
    /\ DOMAIN TEMPLATE_CACHE = TplNames
    /\ parses \in 0 .. MaxRenders
    /\ renders \in 0 .. MaxRenders
    /\ tpc \in [TplThreads -> {"idle", "insert", "render"}]
    /\ tlast.op \in {"render", "remove", "none"}
    /\ tover \in [TplNames -> BOOLEAN]
    /\ rin.t \in 0 .. 64
    /\ rout.done \in BOOLEAN
    /\ fin.fn \in {"none", "create", "decode", "value_to_param", "parse_mappers",
                  "send_request"}
    /\ fout.done \in BOOLEAN
    /\ CONN_MGR.next_conn_id \in 0 .. MaxConns
    /\ DOMAIN CONN_MGR.connections \subseteq Clients
    /\ \A c \in DOMAIN chan : Len(chan[c].q) <= MaxQueue /\ chan[c].rx \in BOOLEAN
    /\ sending.todo \subseteq DOMAIN chan /\ sending.failed \subseteq DOMAIN chan
    /\ wlast.op \in {"none", "add_connection", "send_message"}
    /\ \A c \in DOMAIN hc :
          /\ hc[c].st \in {"none", "run", "done"}
          /\ hc[c].stalled \in BOOLEAN
          /\ hc[c].waiting \subseteq {"ping", "receive"}
          /\ hc[c].closes \in 0 .. 1

\* ------------------------------------------------------------------ Init
InitCommon ==
    /\ TRANSACTION_CONTEXT = [u \in Units |-> EmptyMap]
    /\ idle = Conns
    /\ inTx = [c \in Conns |-> FALSE]
    /\ pending = [c \in Conns |-> {}]
    /\ db = [p \in Pools |-> {}]
    /\ pc = [f \in Fibers |-> "idle"]
    /\ op = [f \in Fibers |-> "none"]
    /\ hd = [f \in Fibers |-> 0]
    /\ arc = [f \in Fibers |-> NoConn]
    /\ left = [f \in Fibers |-> 0]
    /\ last = NoCall
    /\ calls = 0
    \* DBS.get_or_init(|| RwLock::new(HashMap::new()))
    /\ DBS = [n \in RegNames |-> NoPool]
    /\ made = 0
    /\ closed = {}
    /\ rpc = [c \in RegCallers |-> "idle"]
    /\ rarg = [c \in RegCallers |-> NoArg]
    /\ rlast = NoRegCall
    /\ opened = [n \in RegNames |-> ""]
    /\ raced = [n \in RegNames |-> FALSE]
    \* the template cache starts empty
    /\ TEMPLATE_CACHE = [n \in TplNames |-> NoEntry]
    /\ parses = 0
    /\ renders = 0
    /\ tpc = [th \in TplThreads |-> "idle"]
    /\ targ = [th \in TplThreads |-> NoTplArg]
    /\ tlast = NoTplCall
    /\ tover = [n \in TplNames |-> FALSE]
    /\ rin = NoInput
    /\ rout = NoOutput
    /\ fin = NoFnCall
    /\ fout = NoFnResult
    \* ConnectionManager::new(); no channel made yet
    /\ CONN_MGR = [connections |-> <<>>, next_conn_id |-> 0]
    /\ chan = [c \in 0 .. MaxConns - 1 |-> [q |-> <<>>, rx |-> TRUE, cli |-> 0]]
    /\ sending = NoSend
    /\ wlast = NoWsCall
    /\ hc = [c \in 0 .. MaxConns - 1 |-> NoTask]

\* Spec: fibers 1 and 2 are joined futures of unit 1, fiber 3 is unit 2.
Init ==
    /\ InitCommon
    /\ unitOf = [f \in Fibers |-> IF f = 3 THEN 2 ELSE 1]
    /\ scope = [u \in Units |-> FALSE]
    /\ phase = [f \in Fibers |-> "free"]

\* ---------------------------------------------------------------- scope
\* TRANSACTION_CONTEXT.scope(RefCell::new(HashMap::new()), fut)
EnterScope(u) ==
    /\ FibersOf(u) # {}
    /\ ~scope[u]
    /\ \A f \in FibersOf(u) : pc[f] = "idle"
    /\ scope' = [scope EXCEPT ![u] = TRUE]
    /\ TRANSACTION_CONTEXT' = [TRANSACTION_CONTEXT EXCEPT ![u] = EmptyMap]
    /\ last' = NoCall
    /\ UNCHANGED <<unitOf, connVars, fiberVars>>

\* The scope's future has completed: the map is dropped with its entries.
ExitScope(u) ==
    /\ scope[u]
    /\ \A f \in FibersOf(u) : pc[f] \in {"idle", "dead"}
    /\ scope' = [scope EXCEPT ![u] = FALSE]
    /\ TRANSACTION_CONTEXT' = [TRANSACTION_CONTEXT EXCEPT ![u] = EmptyMap]
    /\ idle' = idle \cup Released({TRANSACTION_CONTEXT[u][n] : n \in Names},
                                  TRANSACTION_CONTEXT', arc)
    /\ last' = NoCall
    /\ UNCHANGED <<unitOf, inTx, pending, db, fiberVars>>

\* What a returned call is remembered as: the transaction operations by
\* name, every CRUD operation as "crud".
Class(o) == IF o \in CrudKinds THEN "crud" ELSE o

\* The call o of fiber f on handle h returns r; its statement, if one ran,
\* ran on connection c.  The fiber is idle again.
Return(f, o, h, r, c) ==
    /\ pc' = [pc EXCEPT ![f] = "idle"]
    /\ op' = [op EXCEPT ![f] = "none"]
    /\ hd' = [hd EXCEPT ![f] = 0]
    /\ arc' = [arc EXCEPT ![f] = NoConn]
    /\ left' = [left EXCEPT ![f] = 0]
    /\ last' = [f |-> f, op |-> Class(o), h |-> h, r |-> r, c |-> c]

\* A call begins and is suspended at its first .await.
Suspend(f, o, h, p, c, k) ==
    /\ pc' = [pc EXCEPT ![f] = p]
    /\ op' = [op EXCEPT ![f] = o]
    /\ hd' = [hd EXCEPT ![f] = h]
    /\ arc' = [arc EXCEPT ![f] = c]
    /\ left' = [left EXCEPT ![f] = k]
    /\ last' = NoCall


\* The whole task of unit u is torn down (a panic unwinds it): its joined
\* futures are dropped where they stand and the scope's map with them.
Abort(u, f, o, h) ==
    /\ pc' = [g \in Fibers |-> IF unitOf[g] = u THEN "dead" ELSE pc[g]]
    /\ op' = [g \in Fibers |-> IF unitOf[g] = u THEN "none" ELSE op[g]]
    /\ hd' = [g \in Fibers |-> IF unitOf[g] = u THEN 0 ELSE hd[g]]
    /\ arc' = [g \in Fibers |-> IF unitOf[g] = u THEN NoConn ELSE arc[g]]
    /\ left' = [g \in Fibers |-> IF unitOf[g] = u THEN 0 ELSE left[g]]
    /\ last' = [f |-> f, op |-> Class(o), h |-> h, r |-> "Panic", c |-> NoConn]
    /\ scope' = [scope EXCEPT ![u] = FALSE]
    /\ TRANSACTION_CONTEXT' = [TRANSACTION_CONTEXT EXCEPT ![u] = EmptyMap]
    /\ idle' = idle \cup Released({TRANSACTION_CONTEXT[u][n] : n \in Names}
                                    \cup {arc[g] : g \in FibersOf(u)},
                                  TRANSACTION_CONTEXT', arc')
    /\ UNCHANGED <<unitOf, inTx, pending, db>>

\* ------------------------------------------------------------- the pool
\* Pool::acquire hands out any idle connection of the pool; among idle
\* connections in the same state the lowest stands for all of them.
Acquirable(p) ==
    {c \in idle : /\ PoolOf(c) = p
                  /\ ~\E d \in idle : /\ PoolOf(d) = p /\ d < c
                                      /\ inTx[d] = inTx[c] /\ pending[d] = pending[c]}

\* tokio::sync::Mutex around the transaction's connection: free for f when
\* no other call holds its guard.
\* (variant: no guard)
MutexFree_None(c, f) == TRUE
MutexFree(c, f) == \A g \in Fibers \ {f} : ~(pc[g] = "exec" /\ arc[g] = c)

\* try_with(|map| map.borrow().get(name).cloned()).ok().flatten()
\* (variant: the lookup always misses)
tx_lookup_Skip(f, n) == NoConn
tx_lookup(f, n) ==
    IF scope[ScopeKey(f)] THEN TRANSACTION_CONTEXT[ScopeKey(f)][n] ELSE NoConn

\* The statements, as the database applies them to connection c.
StmtBegin(c) == [inTx EXCEPT ![c] = TRUE]
StmtCommitDb(c) == [db EXCEPT ![PoolOf(c)] = @ \cup pending[c]]
\* (mutant) ROLLBACK written as COMMIT.
StmtRollbackDb_AsCommit(c) == StmtCommitDb(c)
StmtRollbackDb(c) == db
\* A write by fiber f (its effect is named by f's unit): kept apart while a BEGIN is open, committed at once
\* (auto-commit) otherwise.
StmtWriteDb(c, f) ==
    IF inTx[c] THEN db ELSE [db EXCEPT ![PoolOf(c)] = @ \cup {unitOf[f]}]
StmtWritePending(c, f) ==
    IF inTx[c] THEN [pending EXCEPT ![c] = @ \cup {unitOf[f]}] ELSE pending

\* SQLite refuses a BEGIN inside an open transaction; PostgreSQL only warns.
BeginMayPass(c) == ~(inTx[c] /\ KindOf(c) = "sqlite")

\* ---------------------------------------------------- start_transaction
\* The call: the match on self.inner.
start_transaction(f, h) ==
    /\ pc[f] = "idle"
    /\ IF Handles[h].kind = "other"
         THEN Return(f, "start", h, "ErrTxUnsupported", NoConn)
         ELSE Suspend(f, "start", h, "acquire", NoConn, 0)
    /\ UNCHANGED <<unitOf, scope, TRANSACTION_CONTEXT, connVars>>

\* p.acquire().await succeeds.
start_acquire(f) ==
    /\ pc[f] = "acquire"
    /\ \E c \in Acquirable(Handles[hd[f]].pool) :
         /\ idle' = idle \ {c}
         /\ arc' = [arc EXCEPT ![f] = c]
    /\ pc' = [pc EXCEPT ![f] = "begin"]
    /\ last' = NoCall
    /\ UNCHANGED <<unitOf, scope, TRANSACTION_CONTEXT, inTx, pending, db, op, hd, left>>

\* p.acquire().await? fails: the pool stayed empty for acquire_timeout.
start_acquire_timeout(f) ==
    /\ pc[f] = "acquire"
    /\ Acquirable(Handles[hd[f]].pool) = {}
    /\ Return(f, op[f], hd[f], "ErrTimeout", NoConn)
    /\ UNCHANGED <<unitOf, scope, TRANSACTION_CONTEXT, connVars>>

\* BEGIN on the acquired connection, then the insert into the task-local map.
start_begin(f, pass) ==
    LET c == arc[f]
        u == ScopeKey(f)
        n == Handles[hd[f]].name
        old == TRANSACTION_CONTEXT[u][n]
    IN
    /\ pc[f] = "begin"
    /\ pass => BeginMayPass(c)
    /\ IF ~pass
         THEN \* execute(..).await? : the connection is dropped
              /\ Return(f, op[f], hd[f], "ErrDriver", c)
              /\ idle' = idle \cup {c}
              /\ UNCHANGED <<inTx, TRANSACTION_CONTEXT>>
         ELSE /\ inTx' = StmtBegin(c)
              /\ IF scope[u]
                   THEN \* HashMap::insert replaces an entry already there
                        /\ TRANSACTION_CONTEXT' =
                               [TRANSACTION_CONTEXT EXCEPT ![u][n] = c]
                        /\ Return(f, op[f], hd[f], "Ok", c)
                        /\ idle' = idle \cup Released({old}, TRANSACTION_CONTEXT', arc')
                   ELSE \* try_with fails: conn is dropped after its BEGIN
                        /\ Return(f, op[f], hd[f], "ErrScopeStart", c)
                        /\ idle' = idle \cup {c}
                        /\ UNCHANGED TRANSACTION_CONTEXT
    /\ UNCHANGED <<unitOf, scope, pending, db>>

\* conn_arc.lock().await of commit, rollback and the CRUD calls.
lock(f) ==
    /\ pc[f] = "lock"
    /\ MutexFree(arc[f], f)
    /\ pc' = [pc EXCEPT ![f] = "exec"]
    /\ last' = NoCall
    /\ UNCHANGED <<unitOf, scope, TRANSACTION_CONTEXT, connVars, op, hd, arc, left>>

\* --------------------------------- commit_transaction, rollback_transaction
\* Variants of the call: one that leaves the entry in the map, one that
\* removes whatever entry the scope holds under "a".
EndCall_Keep(f, h, o) ==
    LET u == ScopeKey(f)
        n == Handles[h].name
    IN
    /\ pc[f] = "idle"
    /\ IF ~scope[u]
         THEN Return(f, o, h, "ErrScope", NoConn)
         ELSE IF TRANSACTION_CONTEXT[u][n] = NoConn
           THEN Return(f, o, h, IF o = "commit" THEN "ErrNoTxCommit"
                                                ELSE "ErrNoTxRollback", NoConn)
           ELSE Suspend(f, o, h, "lock", TRANSACTION_CONTEXT[u][n], 0)
    /\ UNCHANGED <<unitOf, scope, TRANSACTION_CONTEXT, connVars>>

EndCall_AnyName(f, h, o) ==
    LET u == ScopeKey(f) IN
    /\ pc[f] = "idle"
    /\ IF ~scope[u]
         THEN Return(f, o, h, "ErrScope", NoConn) /\ UNCHANGED TRANSACTION_CONTEXT
         ELSE IF TRANSACTION_CONTEXT[u]["a"] = NoConn
           THEN /\ Return(f, o, h, IF o = "commit" THEN "ErrNoTxCommit"
                                                    ELSE "ErrNoTxRollback", NoConn)
                /\ UNCHANGED TRANSACTION_CONTEXT
           ELSE /\ TRANSACTION_CONTEXT' = [TRANSACTION_CONTEXT EXCEPT ![u]["a"] = NoConn]
                /\ Suspend(f, o, h, "lock", TRANSACTION_CONTEXT[u]["a"], 0)
    /\ UNCHANGED <<unitOf, scope, connVars>>

\* The call: try_with(|map| map.borrow_mut().remove(name)).
EndCall(f, h, o) ==
    LET u == ScopeKey(f)
        n == Handles[h].name
    IN
    /\ pc[f] = "idle"
    /\ IF ~scope[u]
         THEN Return(f, o, h, "ErrScope", NoConn) /\ UNCHANGED TRANSACTION_CONTEXT
         ELSE IF TRANSACTION_CONTEXT[u][n] = NoConn
           THEN /\ Return(f, o, h, IF o = "commit" THEN "ErrNoTxCommit"
                                                    ELSE "ErrNoTxRollback", NoConn)
                /\ UNCHANGED TRANSACTION_CONTEXT
           ELSE /\ TRANSACTION_CONTEXT' = [TRANSACTION_CONTEXT EXCEPT ![u][n] = NoConn]
                /\ Suspend(f, o, h, "lock", TRANSACTION_CONTEXT[u][n], 0)
    /\ UNCHANGED <<unitOf, scope, connVars>>

commit_transaction(f, h) == EndCall(f, h, "commit")

rollback_transaction(f, h) == EndCall(f, h, "rollback")

\* COMMIT under the guard; guard and Arc are dropped on return.
commit_exec(f, pass) ==
    LET c == arc[f] IN
    /\ pc[f] = "exec" /\ op[f] = "commit"
    /\ IF pass
         THEN /\ db' = StmtCommitDb(c)
              /\ pending' = [pending EXCEPT ![c] = {}]
              /\ inTx' = [inTx EXCEPT ![c] = FALSE]
              /\ Return(f, op[f], hd[f], "Ok", c)
         ELSE /\ UNCHANGED <<db, pending, inTx>>
              /\ Return(f, op[f], hd[f], "ErrDriver", c)
    /\ idle' = idle \cup Released({c}, TRANSACTION_CONTEXT, arc')
    /\ UNCHANGED <<unitOf, scope, TRANSACTION_CONTEXT>>

\* ROLLBACK under the guard.
rollback_exec(f, pass) ==
    LET c == arc[f] IN
    /\ pc[f] = "exec" /\ op[f] = "rollback"
    /\ IF pass
         THEN /\ db' = StmtRollbackDb(c)
              /\ pending' = [pending EXCEPT ![c] = {}]
              /\ inTx' = [inTx EXCEPT ![c] = FALSE]
              /\ Return(f, op[f], hd[f], "Ok", c)
         ELSE /\ UNCHANGED <<db, pending, inTx>>
              /\ Return(f, op[f], hd[f], "ErrDriver", c)
    /\ idle' = idle \cup Released({c}, TRANSACTION_CONTEXT, arc')
    /\ UNCHANGED <<unitOf, scope, TRANSACTION_CONTEXT>>


\* ------------------------------------------------------------ CRUD calls
\* Result of a statement that ran and yielded `rows` rows, per operation:
\* create (and each batch item) turns an empty result into an error.
ResultOf(kind, rows) ==
    IF kind \in {"create", "batch_create"} /\ rows = 0 THEN "ErrNoRow" ELSE "Ok"

\* The statement outcomes a call can meet: the driver fails, or the
\* statement runs and yields no row or one row.
Outcomes == {"fail", "rows0", "rows1"}
RowsOf(out) == IF out = "rows1" THEN 1 ELSE 0

\* One statement is dispatched for fiber f: SqlxRepository's match on
\* cnn.inner, then the lookup of the task-local map at the head of
\* execute_*_generic; execute_raw goes through dispatch_db instead.
Route(f, kind, h, k) ==
    LET c == tx_lookup(f, Handles[h].name) IN
    IF kind # "execute_raw" /\ Handles[h].kind = "other"
      THEN /\ Return(f, kind, h, "ErrUnsupported", NoConn)
           /\ UNCHANGED <<scope, TRANSACTION_CONTEXT, idle>>
      ELSE IF c # NoConn
        THEN /\ Suspend(f, kind, h, "lock", c, k)
             /\ UNCHANGED <<scope, TRANSACTION_CONTEXT, idle>>
        ELSE IF Handles[h].kind = "other"
          THEN \* dispatch_db: panic!("Direct DbPool execution not supported ...")
               Abort(unitOf[f], f, kind, h)
          ELSE /\ Suspend(f, kind, h, "pool", NoConn, k)
               /\ UNCHANGED <<scope, TRANSACTION_CONTEXT, idle>>

\* get, list, create, update, delete, execute_raw: the call.
crud(f, kind, h) ==
    /\ pc[f] = "idle"
    /\ kind \in CrudKinds \ {"batch_create"}
    /\ Route(f, kind, h, 1)
    /\ UNCHANGED <<unitOf, inTx, pending, db>>

\* batch_create on k argument sets: the call.  The loop body is not
\* entered for an empty batch.
batch_create(f, h, k) ==
    /\ pc[f] = "idle"
    /\ IF k = 0
         THEN /\ Return(f, "batch_create", h, "Ok", NoConn)
              /\ UNCHANGED <<scope, TRANSACTION_CONTEXT, idle>>
         ELSE Route(f, "batch_create", h, k)
    /\ UNCHANGED <<unitOf, inTx, pending, db>>

\* batch_create: the next turn of the loop.
batch_next(f) ==
    /\ pc[f] = "next"
    /\ Route(f, "batch_create", hd[f], left[f])
    /\ UNCHANGED <<unitOf, inTx, pending, db>>

\* What follows a statement of fiber f that ran on connection c with result r:
\* the call returns, or batch_create goes on with its next item.
After(f, r, c) ==
    IF op[f] = "batch_create" /\ r = "Ok" /\ left[f] > 1
      THEN /\ pc' = [pc EXCEPT ![f] = "next"]
           /\ left' = [left EXCEPT ![f] = @ - 1]
           /\ arc' = [arc EXCEPT ![f] = NoConn]
           /\ last' = NoCall
           /\ UNCHANGED <<op, hd>>
      ELSE Return(f, op[f], hd[f], r, c)

\* The statement of a CRUD call on the transaction's connection, under the
\* guard: D::get_connection, then fetch_optional / fetch_all / execute.
crud_exec(f, out) ==
    LET c == arc[f]
        h == Handles[hd[f]]
    IN
    /\ pc[f] = "exec" /\ op[f] \in CrudKinds
    /\ IF op[f] # "execute_raw" /\ h.kind # KindOf(c)
         THEN \* get_connection: transaction type mismatch
              /\ out = "rows0"
              /\ After(f, "ErrMismatch", NoConn)
              /\ UNCHANGED <<db, pending>>
         ELSE IF out = "fail"
           THEN /\ After(f, "ErrDriver", c)
                /\ UNCHANGED <<db, pending>>
           ELSE /\ After(f, ResultOf(op[f], RowsOf(out)), c)
                /\ IF op[f] \in WriteKinds
                     THEN /\ db' = StmtWriteDb(c, f)
                          /\ pending' = StmtWritePending(c, f)
                     ELSE UNCHANGED <<db, pending>>
    /\ idle' = idle \cup Released({c}, TRANSACTION_CONTEXT, arc')
    /\ UNCHANGED <<unitOf, scope, TRANSACTION_CONTEXT, inTx>>

\* The statement of a CRUD call given to the pool: the pool lends one of its
\* idle connections for the statement and takes it back.
pool_exec(f, out) ==
    /\ pc[f] = "pool"
    /\ \E c \in Acquirable(Handles[hd[f]].pool) :
         IF out = "fail"
           THEN /\ After(f, "ErrDriver", c)
                /\ UNCHANGED <<db, pending>>
           ELSE /\ After(f, ResultOf(op[f], RowsOf(out)), c)
                /\ IF op[f] \in WriteKinds
                     THEN /\ db' = StmtWriteDb(c, f)
                          /\ pending' = StmtWritePending(c, f)
                     ELSE UNCHANGED <<db, pending>>
    /\ UNCHANGED <<unitOf, scope, TRANSACTION_CONTEXT, idle, inTx>>

\* The pool had no connection to lend within acquire_timeout.
pool_timeout(f) ==
    /\ pc[f] = "pool"
    /\ Acquirable(Handles[hd[f]].pool) = {}
    /\ Return(f, op[f], hd[f], "ErrTimeout", NoConn)
    /\ UNCHANGED <<unitOf, scope, TRANSACTION_CONTEXT, connVars>>

\* ------------------------------------------------------------------ Spec
\* Callers are free: any fiber makes any call, MaxCalls calls in all, through
\* the handles of Callable.
Callable == {1, 3}
Counted ==
    /\ calls < MaxCalls /\ calls' = calls + 1
    /\ UNCHANGED <<phase, regVars, tplVars, renVars, fnVars, wsVars>>
Quiet == UNCHANGED <<calls, phase, regVars, tplVars, renVars, fnVars, wsVars>>

Next ==
    \/ \E u \in Units : EnterScope(u) /\ Quiet
    \/ \E u \in Units : ExitScope(u) /\ Quiet
    \/ \E f \in Fibers, h \in Callable : calls < MaxCalls /\ start_transaction(f, h) /\ Counted
    \/ \E f \in Fibers, h \in Callable : calls < MaxCalls /\ commit_transaction(f, h) /\ Counted
    \/ \E f \in Fibers, h \in Callable : calls < MaxCalls /\ rollback_transaction(f, h) /\ Counted
    \/ \E f \in Fibers, h \in Callable, kind \in CrudKinds : calls < MaxCalls /\ crud(f, kind, h) /\ Counted
    \/ \E f \in Fibers, h \in Callable, k \in 0 .. MaxBatch : calls < MaxCalls /\ batch_create(f, h, k) /\ Counted
    \/ \E f \in Fibers : start_acquire(f) /\ Quiet
    \/ \E f \in Fibers : start_acquire_timeout(f) /\ Quiet
    \/ \E f \in Fibers, pass \in BOOLEAN : start_begin(f, pass) /\ Quiet
    \/ \E f \in Fibers : lock(f) /\ Quiet
    \/ \E f \in Fibers, pass \in BOOLEAN : commit_exec(f, pass) /\ Quiet
    \/ \E f \in Fibers, pass \in BOOLEAN : rollback_exec(f, pass) /\ Quiet
    \/ \E f \in Fibers, out \in Outcomes : crud_exec(f, out) /\ Quiet
    \/ \E f \in Fibers, out \in Outcomes : pool_exec(f, out) /\ Quiet
    \/ \E f \in Fibers : pool_timeout(f) /\ Quiet
    \/ \E f \in Fibers : batch_next(f) /\ Quiet

Spec == Init /\ [][Next]_vars

\* -------------------------------------------------------------- SpecSame
\* The futures of one task hold two handles of the same logical name: handle
\* 1, and handle 2 obtained after the name was opened again with another
\* engine.  Any of them makes any call through either handle.
SameName == {h \in HandleIds : Handles[h].name = "a"}
SameCallers == FibersOf(1)

NextSame ==
    \/ \E u \in Units : EnterScope(u) /\ Quiet
    \/ \E u \in Units : ExitScope(u) /\ Quiet
    \/ \E f \in SameCallers, h \in SameName : calls < MaxCalls /\ start_transaction(f, h) /\ Counted
    \/ \E f \in SameCallers, h \in SameName : calls < MaxCalls /\ commit_transaction(f, h) /\ Counted
    \/ \E f \in SameCallers, h \in SameName : calls < MaxCalls /\ rollback_transaction(f, h) /\ Counted
    \/ \E f \in SameCallers, h \in SameName, kind \in CrudKinds : calls < MaxCalls /\ crud(f, kind, h) /\ Counted
    \/ \E f \in SameCallers, h \in SameName, k \in 0 .. MaxBatch : calls < MaxCalls /\ batch_create(f, h, k) /\ Counted
    \/ \E f \in Fibers : start_acquire(f) /\ Quiet
    \/ \E f \in Fibers : start_acquire_timeout(f) /\ Quiet
    \/ \E f \in Fibers, pass \in BOOLEAN : start_begin(f, pass) /\ Quiet
    \/ \E f \in Fibers : lock(f) /\ Quiet
    \/ \E f \in Fibers, pass \in BOOLEAN : commit_exec(f, pass) /\ Quiet
    \/ \E f \in Fibers, pass \in BOOLEAN : rollback_exec(f, pass) /\ Quiet
    \/ \E f \in Fibers, out \in Outcomes : crud_exec(f, out) /\ Quiet
    \/ \E f \in Fibers, out \in Outcomes : pool_exec(f, out) /\ Quiet
    \/ \E f \in Fibers : pool_timeout(f) /\ Quiet
    \/ \E f \in Fibers : batch_next(f) /\ Quiet

SpecSame == Init /\ [][NextSame]_vars


\* --------------------------------------------------------------- SpecIso
\* The units of work of tests/concurrency_test.rs: every fiber is a task of
\* its own inside its own scope; it starts a transaction on handle 1, writes
\* once, then commits or rolls back, and unwraps every result.
InitIso ==
    /\ InitCommon
    /\ unitOf = [f \in Fibers |-> f]
    /\ scope = [u \in Units |-> TRUE]
    /\ phase = [f \in Fibers |-> "start"]

IsErr(r) == r \notin {"Ok", "none"}

\* A result that is not Ok makes the unwrap of that call panic.
Track(f, nxt) ==
    /\ calls' = calls
    /\ UNCHANGED <<regVars, tplVars, renVars, fnVars, wsVars>>
    /\ phase' = [g \in Fibers |->
                   IF last'.f = g /\ IsErr(last'.r) /\ phase[g] # "dead" THEN "failed"
                   ELSE IF g = f THEN nxt ELSE phase[g]]

Tracked == Track(0, "none")

iso_start(f) ==
    phase[f] = "start" /\ start_transaction(f, 1) /\ Track(f, "insert")

iso_insert(f, kind) ==
    phase[f] = "insert" /\ crud(f, kind, 1) /\ Track(f, "end")

iso_insert_batch(f, k) ==
    phase[f] = "insert" /\ batch_create(f, 1, k) /\ Track(f, "end")

iso_commit(f) ==
    phase[f] = "end" /\ commit_transaction(f, 1) /\ Track(f, "commit")

iso_rollback(f) ==
    phase[f] = "end" /\ rollback_transaction(f, 1) /\ Track(f, "rollback")

\* .unwrap() on an Err: the task panics and its scope is dropped.
iso_unwrap(f) ==
    /\ phase[f] = "failed"
    /\ Abort(unitOf[f], f, "unwrap", 0)
    /\ calls' = calls
    /\ UNCHANGED <<regVars, tplVars, renVars, fnVars, wsVars>>
    /\ phase' = [phase EXCEPT ![f] = "dead"]

\* The scope's future returns after the last call of the unit.
iso_exit(f) ==
    /\ phase[f] \in {"commit", "rollback"}
    /\ ExitScope(unitOf[f])
    /\ Tracked

NextIso ==
    \/ \E f \in Fibers : iso_start(f)
    \/ \E f \in Fibers, kind \in WriteKinds : iso_insert(f, kind)
    \/ \E f \in Fibers, k \in 1 .. MaxBatch : iso_insert_batch(f, k)
    \/ \E f \in Fibers : iso_commit(f)
    \/ \E f \in Fibers : iso_rollback(f)
    \/ \E f \in Fibers : iso_unwrap(f)
    \/ \E f \in Fibers : iso_exit(f)
    \/ \E f \in Fibers : start_acquire(f) /\ Tracked
    \/ \E f \in Fibers : start_acquire_timeout(f) /\ Tracked
    \/ \E f \in Fibers, pass \in BOOLEAN : start_begin(f, pass) /\ Tracked
    \/ \E f \in Fibers : lock(f) /\ Tracked
    \/ \E f \in Fibers, pass \in BOOLEAN : commit_exec(f, pass) /\ Tracked
    \/ \E f \in Fibers, pass \in BOOLEAN : rollback_exec(f, pass) /\ Tracked
    \/ \E f \in Fibers, out \in Outcomes : crud_exec(f, out) /\ Tracked
    \/ \E f \in Fibers : batch_next(f) /\ Tracked

SpecIso == InitIso /\ [][NextIso]_vars

\* A unit has run its script to the end and every call of it returned Ok.
Finished(f) == phase[f] \in {"commit", "rollback"} /\ pc[f] = "idle"

\* C1: once all concurrent units (each in its own scope, each start; write;
\* commit or rollback) have finished, the persisted effects are exactly those
\* of the units that committed, whatever the interleaving was: no rollback
\* removed a committed effect and none survived a rollback.
C1_Isolation ==
    (\A f \in Fibers : Finished(f))
        => /\ db[1] = {unitOf[f] : f \in {g \in Fibers : phase[g] = "commit"}}
           /\ Cardinality(db[1]) = Cardinality({g \in Fibers : phase[g] = "commit"})

\* All units have finished, some committed and some rolled back.
C1_Witness ==
    /\ \A f \in Fibers : Finished(f)
    /\ \E f \in Fibers : phase[f] = "commit"
    /\ \E f \in Fibers : phase[f] = "rollback"
    /\ db[1] # {}


\* ------------------------------------------------------------- SpecReg
\* ConnManager (db_conn.rs): open, by, get and close on the process-wide map.
\* A call on name n starts while caller c's own call is idle; it overlaps
\* when another caller's open or close on n is still in progress.
Overlaps(c, n) == \E d \in RegCallers \ {c} : rpc[d] # "idle" /\ rarg[d].n = n
Begin(c, n) == raced' = [raced EXCEPT ![n] = @ \/ Overlaps(c, n)]

RegReturn(c, o, n, r, h) ==
    /\ rpc' = [rpc EXCEPT ![c] = "idle"]
    /\ rarg' = [rarg EXCEPT ![c] = NoArg]
    /\ rlast' = [c |-> c, op |-> o, n |-> n, r |-> r, h |-> h]

\* open(name, type, config): the call, up to the await of DbPool::new.
open(c, n, t) ==
    /\ rpc[c] = "idle"
    /\ made + Cardinality({d \in RegCallers : rpc[d] = "new"}) < MaxOpens
    /\ rpc' = [rpc EXCEPT ![c] = "new"]
    /\ rarg' = [rarg EXCEPT ![c] = [n |-> n, t |-> t, h |-> NoPool]]
    /\ rlast' = NoRegCall
    /\ Begin(c, n)
    /\ UNCHANGED <<DBS, made, closed, opened>>

\* DbPool::new returns: on Err, `?` returns it; on Ok the pool is inserted
\* under the name (HashMap::insert replaces an entry already there).
open_new(c, ok) ==
    LET n == rarg[c].n
        t == rarg[c].t
    IN
    /\ rpc[c] = "new"
    /\ InnerOf(t) = "other" => ok
    /\ IF ok
         THEN /\ made' = made + 1
              /\ DBS' = [DBS EXCEPT ![n] = DbPoolOf(n, t, made + 1)]
              /\ opened' = [opened EXCEPT ![n] = t]
              /\ RegReturn(c, "open", n, "Ok", DBS'[n])
         ELSE /\ RegReturn(c, "open", n, "Err", NoPool)
              /\ UNCHANGED <<DBS, made, opened>>
    /\ UNCHANGED <<closed, raced>>

\* Variant: every lookup reads the "default" entry.
by_Default(c, n) ==
    /\ rpc[c] = "idle"
    /\ RegReturn(c, "by", n, IF DBS["default"] = NoPool THEN "None" ELSE "Some",
                 DBS["default"])
    /\ UNCHANGED <<DBS, made, closed, opened, raced>>

\* by(name): all().read().unwrap().get(name).cloned()
by(c, n) ==
    /\ rpc[c] = "idle"
    /\ RegReturn(c, "by", n, IF DBS[n] = NoPool THEN "None" ELSE "Some", DBS[n])
    /\ UNCHANGED <<DBS, made, closed, opened, raced>>

\* get(): all().read().unwrap().get("default").cloned()
get(c) ==
    /\ rpc[c] = "idle"
    /\ RegReturn(c, "get", "default",
                 IF DBS["default"] = NoPool THEN "None" ELSE "Some", DBS["default"])
    /\ UNCHANGED <<DBS, made, closed, opened, raced>>

\* Variant: the entry is read (map.get) and left in the map.
close_Get(c, n) ==
    /\ rpc[c] = "idle"
    /\ UNCHANGED DBS
    /\ IF DBS[n] = NoPool
         THEN /\ RegReturn(c, "close", n, "false", NoPool)
              /\ opened' = [opened EXCEPT ![n] = ""]
              /\ UNCHANGED raced
         ELSE /\ rpc' = [rpc EXCEPT ![c] = "closing"]
              /\ rarg' = [rarg EXCEPT ![c] = [n |-> n, t |-> "", h |-> DBS[n]]]
              /\ rlast' = NoRegCall
              /\ Begin(c, n)
              /\ UNCHANGED opened
    /\ UNCHANGED <<made, closed>>

\* close(name): map.remove(name) under the write lock; None returns false.
close(c, n) ==
    /\ rpc[c] = "idle"
    /\ DBS' = [DBS EXCEPT ![n] = NoPool]
    /\ IF DBS[n] = NoPool
         THEN /\ RegReturn(c, "close", n, "false", NoPool)
              /\ opened' = [opened EXCEPT ![n] = ""]
              /\ UNCHANGED raced
         ELSE /\ rpc' = [rpc EXCEPT ![c] = "closing"]
              /\ rarg' = [rarg EXCEPT ![c] = [n |-> n, t |-> "", h |-> DBS[n]]]
              /\ rlast' = NoRegCall
              /\ Begin(c, n)
              /\ UNCHANGED opened
    /\ UNCHANGED <<made, closed>>

\* pool.close().await, then true.
close_pool(c) ==
    /\ rpc[c] = "closing"
    /\ closed' = closed \cup {rarg[c].h}
    /\ opened' = [opened EXCEPT ![rarg[c].n] = ""]
    /\ RegReturn(c, "close", rarg[c].n, "true", rarg[c].h)
    /\ UNCHANGED <<DBS, made, raced>>

NextReg ==
    /\ UNCHANGED <<txVars, tplVars, renVars, fnVars, wsVars>>
    /\ \/ \E c \in RegCallers, n \in RegNames, t \in RegTypes : open(c, n, t)
       \/ \E c \in RegCallers, ok \in BOOLEAN : open_new(c, ok)
       \/ \E c \in RegCallers, n \in RegNames : by(c, n)
       \/ \E c \in RegCallers : get(c)
       \/ \E c \in RegCallers, n \in RegNames : close(c, n)
       \/ \E c \in RegCallers : close_pool(c)

SpecReg == Init /\ [][NextReg]_vars

\* ------------------------------------------------- the template engine
\* sql_tpl/value.rs: Value, with the payload of a scalar kept as text.
Null      == [tag |-> "Null", v |-> "",  items |-> <<>>]
I64(x)    == [tag |-> "I64",  v |-> x,   items |-> <<>>]
Str(x)    == [tag |-> "Str",  v |-> x,   items |-> <<>>]
List(xs)  == [tag |-> "List", v |-> "",  items |-> xs]
\* A key the root map does not hold (HashMap::get yields None).
Absent    == [tag |-> "Absent", v |-> "", items |-> <<>>]

\* Variant: the small integers are widened to I64.
value_to_param_Widen(val) ==
    IF val.tag \in {"List", "Map"} THEN [tag |-> "unreachable", v |-> ""]
    ELSE [tag |-> CASE val.tag = "Str" -> "String"
                    [] val.tag \in {"I16", "I32", "U8"} -> "I64"
                    [] OTHER -> val.tag,
          v |-> val.v]
\* value_to_param: the scalar kinds map to the SqlParam of the same payload
\* (Str becomes String); List and Map reach unreachable!().
value_to_param(val) ==
    IF val.tag \in {"List", "Map"} THEN [tag |-> "unreachable", v |-> ""]
    ELSE [tag |-> IF val.tag = "Str" THEN "String" ELSE val.tag, v |-> val.v]

\* sql_tpl/ast.rs: Context {root, locals}.  root is a record
\* [map |-> BOOLEAN, m |-> key -> Value]; locals is the Vec of (key, value).
Context_new(root) == [root |-> root, locals |-> <<>>]
\* Variants: push that binds nothing, pop that leaves the binding.
push_Lost(ctx, key, val) == ctx
pop_Noop(ctx) == ctx
push(ctx, key, val) == [ctx EXCEPT !.locals = Append(@, <<key, val>>)]
pop(ctx) ==
    [ctx EXCEPT !.locals = IF @ = <<>> THEN <<>> ELSE SubSeq(@, 1, Len(@) - 1)]

\* Variant: a key the root map lacks is not turned into Null.
lookup_NoDefault(ctx, key) ==
    LET hits == {j \in 1 .. Len(ctx.locals) : ctx.locals[j][1] = key} IN
    IF hits # {}
      THEN ctx.locals[CHOOSE j \in hits : \A k \in hits : k <= j][2]
      ELSE IF ctx.root.map /\ key \in DOMAIN ctx.root.m
        THEN ctx.root.m[key]
        ELSE Null

\* Variant: the locals are searched from the oldest binding on.
lookup_Oldest(ctx, key) ==
    LET hits == {j \in 1 .. Len(ctx.locals) : ctx.locals[j][1] = key} IN
    IF hits # {}
      THEN ctx.locals[CHOOSE j \in hits : \A k \in hits : k >= j][2]
      ELSE IF ctx.root.map /\ key \in DOMAIN ctx.root.m /\ ctx.root.m[key] # Absent
        THEN ctx.root.m[key]
        ELSE Null

\* Context::lookup: the locals in reverse order, then the root map, else Null.
lookup(ctx, key) ==
    LET hits == {j \in 1 .. Len(ctx.locals) : ctx.locals[j][1] = key} IN
    IF hits # {}
      THEN ctx.locals[CHOOSE j \in hits : \A k \in hits : k <= j][2]
      ELSE IF ctx.root.map /\ key \in DOMAIN ctx.root.m /\ ctx.root.m[key] # Absent
        THEN ctx.root.m[key]
        ELSE Null

\* AstNode (ast.rs).  An If test is kept parsed: [key, op] with op one of
\* "ne_null" (key != null) and "eq_null" (key == null).
Text(x)    == [t |-> "Text", s |-> x]
Var(x)     == [t |-> "Var", s |-> x]
Include(x) == [t |-> "Include", refid |-> x]
If(k, o, b) == [t |-> "If", test |-> [key |-> k, op |-> o], body |-> b]
For(it, co, op_, se, cl, b) ==
    [t |-> "For", item |-> it, collection |-> co,
     open |-> op_, sep |-> se, close |-> cl, body |-> b]

\* The test of an If node against the lookup context.
eval_test(test, ctx) ==
    IF test.op = "ne_null" THEN lookup(ctx, test.key) # Null
                           ELSE lookup(ctx, test.key) = Null

\* RenderBuffer {sql, params}; sql is kept as the sequence of the pieces
\* appended to it.  err names the failure that ended the render, if any.
RenderStart(root) ==
    [ctx |-> Context_new(root), sql |-> <<>>, params |-> <<>>, err |-> ""]
Fail(st, e) == [st EXCEPT !.err = e]
Emit(st, x) == [st EXCEPT !.sql = Append(@, x)]

\* A Var node: the placeholder goes to the SQL text and the looked-up value
\* to the parameter list.
render_var(st, key) ==
    LET p == value_to_param(lookup(st.ctx, key)) IN
    IF p.tag = "unreachable" THEN Fail(st, "unreachable")
    ELSE [st EXCEPT !.sql = Append(@, "?"), !.params = Append(@, p)]

\* render::render(ast, ctx, buf): depth first over the nodes.  cache gives
\* the AST registered under a name (<<>> paired with has = FALSE when none).
RECURSIVE render(_, _, _)
RECURSIVE render_items(_, _, _, _, _)
\* Variant: the included template is rendered with no cache at hand, so an
\* include inside it finds nothing.
render_include_Flat(node, st, cache) ==
    IF cache[node.refid].has
      THEN render(cache[node.refid].ast, st, [n \in DOMAIN cache |-> NoEntry])
      ELSE Fail(st, "include not found: " \o node.refid)
\* An Include node: the AST registered under refid at this moment is
\* rendered in place, on the same context and buffer; no entry is an error
\* that names refid.
render_include(node, st, cache) ==
    IF cache[node.refid].has
      THEN render(cache[node.refid].ast, st, cache)
      ELSE Fail(st, "include not found: " \o node.refid)

render_for(node, st, cache) ==
    LET coll == lookup(st.ctx, node.collection) IN
    IF coll.tag # "List" THEN Fail(st, "for target is not a list")
    ELSE LET done == render_items(node, coll.items, 1, Emit(st, node.open), cache)
         IN IF done.err # "" THEN done ELSE Emit(done, node.close)

render_items(node, items, j, st, cache) ==
    IF j > Len(items) \/ st.err # "" THEN st
    ELSE LET sep == IF j > 1 THEN Emit(st, node.sep) ELSE st
             in_ == [sep EXCEPT !.ctx = push(@, node.item, items[j])]
             body == render(node.body, in_, cache)
             out == IF body.err # "" THEN body ELSE [body EXCEPT !.ctx = pop(@)]
         IN render_items(node, items, j + 1, out, cache)

render(ast, st, cache) ==
    IF ast = <<>> \/ st.err # "" THEN st
    ELSE LET node == Head(ast)
             st1 == CASE node.t = "Text" -> Emit(st, node.s)
                      [] node.t = "Var" -> render_var(st, node.s)
                      [] node.t = "If" ->
                           IF eval_test(node.test, st.ctx)
                             THEN render(node.body, st, cache) ELSE st
                      [] node.t = "For" -> render_for(node, st, cache)
                      [] node.t = "Include" -> render_include(node, st, cache)
         IN render(Tail(ast), st1, cache)

\* ------------------------------------------------------------- SpecTpl
\* The template contents rendered in SpecTpl and what the parser makes of
\* them: two versions of one statement, and one with an include.
Contents == {"select 1 ...", "select 2 ...", "select <include> ..."}
parse(content) ==
    CASE content = "select 1 ..." -> <<Text("select 1 from test where id = "), Var("id")>>
      [] content = "select 2 ..." -> <<Text("select 2 from test where id = "), Var("id")>>
      [] content = "select <include> ..." ->
             <<Text("select "), Include("part"), Text(" from users")>>
\* A template that includes "part" is rendered under the name "main" only
\* (no template includes itself).
Renderable(n, content) == content = "select <include> ..." => n = "main"

\* to_value(param) of the renders: SimpleParam {id: 1}.
TplRoot == [map |-> TRUE, m |-> [k \in {"id"} |-> I64("1")]]

\* Variant: an entry under the name is a hit whatever its content.
cache_hit_AnyContent(n, content) == TEMPLATE_CACHE[n].has
\* cache::get_ast, the lookup: an entry under the name with the same
\* content is a hit.
cache_hit(n, content) ==
    TEMPLATE_CACHE[n].has /\ TEMPLATE_CACHE[n].content = content

\* A call on template name n starts while another thread's call on n is in
\* progress.
TplBegin(th, n) ==
    tover' = [tover EXCEPT ![n] =
                 @ \/ \E o \in TplThreads \ {th} : tpc[o] # "idle" /\ targ[o].n = n]

\* render_template(name, content, param): the call and get_ast's lookup; on
\* a miss the content is parsed.
render_template(th, n, content) ==
    /\ tpc[th] = "idle" /\ renders < MaxRenders
    /\ TplBegin(th, n)
    /\ renders' = renders + 1
    /\ IF cache_hit(n, content)
         THEN /\ targ' = [targ EXCEPT ![th] =
                     [n |-> n, content |-> content, ast |-> TEMPLATE_CACHE[n].ast,
                      parsed |-> FALSE]]
              /\ tpc' = [tpc EXCEPT ![th] = "render"]
              /\ UNCHANGED parses
         ELSE /\ targ' = [targ EXCEPT ![th] =
                     [n |-> n, content |-> content, ast |-> parse(content),
                      parsed |-> TRUE]]
              /\ tpc' = [tpc EXCEPT ![th] = "insert"]
              /\ parses' = parses + 1
    /\ tlast' = NoTplCall
    /\ UNCHANGED TEMPLATE_CACHE

\* Variant: an entry already under the name is kept (insert if absent).
get_ast_insert_Keep(th) ==
    /\ tpc[th] = "insert"
    /\ TEMPLATE_CACHE' = [TEMPLATE_CACHE EXCEPT ![targ[th].n] =
           IF @.has THEN @
           ELSE [has |-> TRUE, content |-> targ[th].content, ast |-> targ[th].ast]]
    /\ tpc' = [tpc EXCEPT ![th] = "render"]
    /\ tlast' = NoTplCall
    /\ UNCHANGED <<parses, renders, targ, tover>>

\* get_ast, after a parse: the entry (content, AST) is put under the name as
\* one value, replacing what was there.
get_ast_insert(th) ==
    /\ tpc[th] = "insert"
    /\ TEMPLATE_CACHE' = [TEMPLATE_CACHE EXCEPT ![targ[th].n] =
           [has |-> TRUE, content |-> targ[th].content, ast |-> targ[th].ast]]
    /\ tpc' = [tpc EXCEPT ![th] = "render"]
    /\ tlast' = NoTplCall
    /\ UNCHANGED <<parses, renders, targ, tover>>

\* to_value, Context::new, render::render, and the return of (sql, params).
\* render_template's type is (String, Vec<SqlParam>) and the call of
\* render::render is a statement of its own: whatever render reports (err),
\* the caller is handed the buffer as it stands (ret = "tuple").
render_out(th) ==
    LET out == render(targ[th].ast, RenderStart(TplRoot), TEMPLATE_CACHE) IN
    /\ tpc[th] = "render"
    /\ tlast' = [th |-> th, op |-> "render", n |-> targ[th].n,
                 content |-> targ[th].content, parsed |-> targ[th].parsed,
                 sql |-> out.sql, params |-> out.params, err |-> out.err,
                 ret |-> "tuple"]
    /\ tpc' = [tpc EXCEPT ![th] = "idle"]
    /\ targ' = [targ EXCEPT ![th] = NoTplArg]
    /\ UNCHANGED <<TEMPLATE_CACHE, parses, renders, tover>>

\* Variant: the whole cache is cleared.
remove_template_All(th, n) ==
    /\ tpc[th] = "idle"
    /\ TEMPLATE_CACHE' = [m \in TplNames |-> NoEntry]
    /\ tlast' = [NoTplCall EXCEPT !.th = th, !.op = "remove", !.n = n]
    /\ TplBegin(th, n)
    /\ UNCHANGED <<parses, renders, tpc, targ>>

\* remove_template(name): TEMPLATE_CACHE.remove(name)
remove_template(th, n) ==
    /\ tpc[th] = "idle"
    /\ TEMPLATE_CACHE' = [TEMPLATE_CACHE EXCEPT ![n] = NoEntry]
    /\ tlast' = [NoTplCall EXCEPT !.th = th, !.op = "remove", !.n = n]
    /\ TplBegin(th, n)
    /\ UNCHANGED <<parses, renders, tpc, targ>>

NextTpl ==
    /\ UNCHANGED <<txVars, regVars, renVars, fnVars, wsVars>>
    /\ \/ \E th \in TplThreads, n \in TplNames, content \in Contents :
             Renderable(n, content) /\ render_template(th, n, content)
       \/ \E th \in TplThreads : get_ast_insert(th)
       \/ \E th \in TplThreads : render_out(th)
       \/ \E th \in TplThreads, n \in TplNames : remove_template(th, n)

SpecTpl == Init /\ [][NextTpl]_vars

\* ---------------------------------------------------------- SpecRender
\* render applied to parsed templates and parameter values.  The templates
\* are those of tests/sql_template_test.rs and tests/sql_tpl_include_test.rs
\* and variations of them: nested loops, a loop variable named like a root
\* key, an include, and the failing cases.
ForIds(body) == For("i", "ids", " and id in (", ",", ")", body)
IfName == If("name", "ne_null", <<Text(" and name = "), Var("name")>>)
Templates ==
    << <<Text("select * from test where 1=1"), IfName, ForIds(<<Var("i")>>)>>,
       <<ForIds(<<Var("i")>>)>>,
       <<Text("select"), IfName>>,
       <<Var("i"),
         ForIds(<<Var("i"), For("i", "ids2", "[", ";", "]", <<Var("i")>>), Var("i")>>),
         Var("i")>>,
       <<ForIds(<<Var("j"), For("j", "ids2", "[", ";", "]", <<Var("i"), Var("j")>>)>>),
         Var("j")>>,
       <<Text("select "), Include("cols"), IfName, Text(" from users")>>,
       <<If("name", "eq_null", <<Text(" and name is null")>>), Var("name")>>,
       <<Text("select "), Include("missing")>>,
       <<Var("ids")>>,
       <<For("i", "name", "(", ",", ")", <<Var("i")>>)>>,
       <<Text("select "), Var("name"), Include("part2"), Text(", c from t"), Var("i")>> >>

\* The templates registered in the cache when these are rendered.
RenderCache ==
    [n \in {"cols", "missing", "part1", "part2"} |->
        CASE n = "cols" -> [has |-> TRUE, ast |-> <<Text("id, name = "), Var("name")>>]
          [] n = "part1" -> [has |-> TRUE, ast |-> <<Text("a = "), Var("name")>>]
          [] n = "part2" ->
               [has |-> TRUE, ast |-> <<Var("i"), Include("part1"), Text(", b")>>]
          [] OTHER -> [has |-> FALSE, ast |-> <<>>]]

\* to_value(param): the parameter values.  A struct gives a Map; ids is a
\* list of up to MaxList integers, name an Option<&str>.
RECURSIVE SeqsUpTo(_, _)
SeqsUpTo(S, k) ==
    IF k = 0 THEN {<<>>}
    ELSE LET shorter == SeqsUpTo(S, k - 1)
         IN shorter \cup {Append(q, x) : q \in {r \in shorter : Len(r) = k - 1}, x \in S}
IdLists == {List(q) : q \in SeqsUpTo({I64("1"), I64("2"), I64("3")}, MaxList)}
Roots ==
    {[map |-> TRUE,
      m |-> [k \in {"name", "ids", "ids2", "i"} |->
               CASE k = "name" -> nm [] k = "ids" -> ids [] k = "ids2" -> ids2
                 [] k = "i" -> ri]] :
        nm \in {Absent, Null, Str("tom")},
        ids \in IdLists \cup {Absent},
        ids2 \in {List(<<I64("7")>>), List(<<I64("7"), I64("8")>>)},
        ri \in {Absent, Str("root")}}
    \cup {[map |-> FALSE, m |-> <<>>]}

\* A template and a parameter value are picked.
render_pick(t, root) ==
    /\ rin = NoInput
    /\ rin' = [t |-> t, root |-> root]
    /\ rout' = NoOutput

\* render_template's body from to_value on, for the picked input.
render_apply ==
    LET st == render(Templates[rin.t], RenderStart(rin.root), RenderCache) IN
    /\ rin.t # 0 /\ ~rout.done
    /\ rout' = [done |-> TRUE, sql |-> st.sql, params |-> st.params,
                locals |-> st.ctx.locals, err |-> st.err]
    /\ UNCHANGED rin

NextRender ==
    /\ UNCHANGED <<txVars, regVars, tplVars, fnVars, wsVars>>
    /\ \/ \E t \in DOMAIN Templates, root \in Roots : render_pick(t, root)
       \/ render_apply

SpecRender == Init /\ [][NextRender]_vars

\* --------------------------------------------------------------- SpecFn
\* The functions whose result depends on their arguments alone, each applied
\* to arguments drawn from a bounded set.
Ok(v)  == [ok |-> TRUE, v |-> v]
Err(e) == [ok |-> FALSE, e |-> e]

\* One call: the arguments are taken and the result is kept.
Called(fn, x, y) ==
    /\ fin = NoFnCall
    /\ fin' = [fn |-> fn, x |-> x]
    /\ fout' = [done |-> TRUE, y |-> y]

\* What a statement meets: the driver fails, or it runs and yields up to
\* MaxRows rows.  A row is [id, de]: de tells whether T::deserialize accepts
\* it.
Engines == {"mysql", "sqlite", "postgres"}
RowSet  == [id : {1, 2}, de : BOOLEAN]
Fetches ==
    {[fail |-> TRUE, rows |-> <<>>]}
    \cup {[fail |-> FALSE, rows |-> q] : q \in SeqsUpTo(RowSet, MaxRows)}
\* The arguments of one repository call: the engine of the handle, the
\* connection the scope holds under its name ("none": no transaction), and
\* what the statement meets.
RepoCalls == [engine : Engines, tx : Engines \cup {"none"}, fetch : Fetches]

\* D::from_row
from_row(row) == IF row.de THEN Ok(row.id) ELSE Err("Deserialization error")

\* execute_get_generic::<D, T>: on the transaction's connection after
\* D::get_connection, else on the pool; fetch_optional takes the first row.
\* An Option is a sequence of at most one element.
execute_get_generic(x) ==
    IF x.tx # "none" /\ x.tx # x.engine THEN Err("Transaction type mismatch")
    ELSE IF x.fetch.fail THEN Err("Sqlx")
    ELSE IF x.fetch.rows = <<>> THEN Ok(<<>>)
    ELSE LET t == from_row(Head(x.fetch.rows))
         IN IF t.ok THEN Ok(<<t.v>>) ELSE t

\* Variant: no row gives T's default value.
execute_create_generic_Default(x) ==
    LET opt == execute_get_generic(x) IN
    IF ~opt.ok THEN opt
    ELSE IF opt.v = <<>> THEN Ok(0) ELSE Ok(opt.v[1])
\* execute_create_generic::<D, T>: opt.ok_or_else(..)
execute_create_generic(x) ==
    LET opt == execute_get_generic(x) IN
    IF ~opt.ok THEN opt
    ELSE IF opt.v = <<>> THEN Err("Create did not return a row") ELSE Ok(opt.v[1])

\* SqlxRepository::create on a handle of a supported engine.
create(x) == Called("create", x, execute_create_generic(x))

\* orm/row_de.rs: one cell of a row as RowReader shows it: is_null,
\* type_name, and which of the typed extractions (try_get::<T>) succeed on it.
IntNames   == {"TINYINT", "SMALLINT", "INT", "INTEGER", "BIGINT", "INT2", "INT4", "INT8"}
FloatNames == {"FLOAT", "DOUBLE", "REAL", "FLOAT4", "FLOAT8"}
BoolNames  == {"BOOLEAN", "BOOL"}
TextNames  == {"VARCHAR", "TEXT", "CHAR", "NAME", "String"}
JsonNames  == {"JSON", "JSONB"}
TimeNames  == {"DATETIME", "TIMESTAMP", "TIMESTAMPTZ"}
OtherNames == {"NUMERIC", "UUID", "NULL"}
TypeNames  == IntNames \cup FloatNames \cup BoolNames \cup TextNames \cup JsonNames
              \cup TimeNames \cup {"BLOB"} \cup OtherNames
Getters == {"bool", "i64", "f64", "string", "json"}
Cells == [null : BOOLEAN, type_name : TypeNames, got : SUBSET Getters]

\* What the visitor is handed: visit_unit, visit_none, visit_i64, ..., or the
\* error of a failed extraction.
Visit(k) == [visit |-> k]
\* get_* followed by map_err(de::Error::custom)? and the visit
Extract(c, g) == IF g \in c.got THEN Visit(g) ELSE Visit("err")

\* Variant: the fallback tries the integer first.
fallback_IntFirst(c) ==
    IF "i64" \in c.got THEN Visit("i64")
    ELSE IF "string" \in c.got THEN Visit("string")
    ELSE IF "f64" \in c.got THEN Visit("f64")
    ELSE Visit("unit")
\* deserialize_any, the last arm: string, then i64, then f64, else unit.
fallback(c) ==
    IF "string" \in c.got THEN Visit("string")
    ELSE IF "i64" \in c.got THEN Visit("i64")
    ELSE IF "f64" \in c.got THEN Visit("f64")
    ELSE Visit("unit")

\* ColValueDeserializer::deserialize_any
deserialize_any(c) ==
    IF c.null THEN Visit("unit")
    ELSE CASE c.type_name \in IntNames   -> Extract(c, "i64")
           [] c.type_name \in FloatNames -> Extract(c, "f64")
           [] c.type_name \in BoolNames  -> Extract(c, "bool")
           [] c.type_name \in TextNames  -> Extract(c, "string")
           [] c.type_name \in JsonNames  -> Extract(c, "json")
           [] c.type_name \in TimeNames  -> Extract(c, "string")
           [] c.type_name = "BLOB"       -> Visit("unit")
           [] OTHER                      -> fallback(c)

\* deserialize_bool / deserialize_i64 / deserialize_f64 / deserialize_string
\* (g names the extraction), and the methods forwarded to deserialize_any.
deserialize_as(c, g) ==
    IF g # "any" /\ g \in c.got THEN Visit(g) ELSE deserialize_any(c)

\* ColValueDeserializer::deserialize_option: visit_none on a null cell, else
\* visit_some(self), after which the field's own type g picks the method.
deserialize_option(c, g) ==
    IF c.null THEN Visit("none")
    ELSE [visit |-> "some", inner |-> deserialize_as(c, g)]

\* The methods a field's type asks for.
Hints == {"any", "bool", "i64", "f64", "string"}
\* A field of type T / of type Option<T> takes its value from cell c.
decode_field(c, g) ==
    Called("decode", [cell |-> c, hint |-> g, opt |-> FALSE], deserialize_as(c, g))
decode_option(c, g) ==
    Called("decode", [cell |-> c, hint |-> g, opt |-> TRUE], deserialize_option(c, g))

\* sql_tpl/value.rs: the values handed to value_to_param, a payload being
\* kept as text; Null carries none.
ScalarTags == {"Bool", "I16", "I32", "I64", "U8", "F64", "Str", "Bytes", "Date",
               "Time", "DateTime", "DateTimeUtc", "Decimal"}
Payloads == {"", "0", "1", "x"}
Values ==
    {Null}
    \cup {[tag |-> t, v |-> q, items |-> <<>>] : t \in ScalarTags, q \in Payloads}
    \cup {List(<<>>), List(<<I64("1")>>), List(<<Null, Str("x")>>)}
    \cup {[tag |-> "Map", v |-> "", items |-> <<>>],
          [tag |-> "Map", v |-> "", items |-> <<Str("x")>>]}
\* value_to_param(&v)
to_param(val) == Called("value_to_param", val, value_to_param(val))

\* sql_parser.rs: a mapper file as serde reads it.  A child element is
\* [tag, id]; the tag "other" is an element of no statement kind
\* (SqlNode::Unknown).  A file that is not *.xml is passed over, and a file
\* that is no mapper document fails to parse.
StatementTags == {"sql", "select", "insert", "update", "delete"}
Node(tag, id) == [tag |-> tag, id |-> id]
Mapper(namespace, nodes) ==
    [ext |-> "xml", valid |-> TRUE, namespace |-> namespace, nodes |-> nodes]
Namespaces == {"TestDao", "UserDao"}
MapperFiles ==
    {Mapper("TestDao", <<Node("select", "dup"), Node("update", "dup")>>),
     Mapper("TestDao", <<Node("select", "dup")>>),
     Mapper("TestDao", <<Node("delete", "dup"), Node("insert", "one")>>),
     Mapper("TestDao", <<Node("other", "dup"), Node("sql", "one")>>),
     Mapper("TestDao", <<Node("other", "dup"), Node("other", "dup")>>),
     Mapper("TestDao", <<>>),
     Mapper("UserDao", <<Node("select", "dup"), Node("insert", "one")>>),
     Mapper("UserDao", <<Node("sql", "one")>>),
     [ext |-> "txt", valid |-> TRUE, namespace |-> "TestDao",
      nodes |-> <<Node("select", "dup")>>],
     [ext |-> "xml", valid |-> FALSE, namespace |-> "", nodes |-> <<>>]}
\* The directory in the order WalkDir yields its files.
MapperDirs == SeqsUpTo(MapperFiles, MaxFiles)
\* ContentMap: namespace -> ids (the statement text is left out); a
\* namespace of no entry and one of an empty map are both {}.
EmptyContentMap == [ns \in Namespaces |-> {}]

\* SqlNode::into_item
into_item(node) == IF node.tag \in StatementTags THEN <<node.id>> ELSE <<>>

\* Variant: the insert's previous value is not looked at.
insert_nodes_Overwrite(nodes, namespace, cm) ==
    Ok([cm EXCEPT ![namespace] =
           @ \cup {nodes[i].id : i \in {j \in DOMAIN nodes : into_item(nodes[j]) # <<>>}}])
\* process_mapper_file: for node in mapper.nodes { .. }, bail! when the
\* insert finds the id already there.
RECURSIVE insert_nodes(_, _, _)
insert_nodes(nodes, namespace, cm) ==
    IF nodes = <<>> THEN Ok(cm)
    ELSE LET item == into_item(Head(nodes)) IN
         IF item = <<>> THEN insert_nodes(Tail(nodes), namespace, cm)
         ELSE IF item[1] \in cm[namespace]
                THEN Err([msg |-> "duplicate id", id |-> item[1], namespace |-> namespace])
                ELSE insert_nodes(Tail(nodes), namespace,
                                  [cm EXCEPT ![namespace] = @ \cup {item[1]}])

\* process_mapper_file(path, content_map, mapper_map)
process_mapper_file(file, cm) ==
    IF ~file.valid THEN Err([msg |-> "xml parse", id |-> "", namespace |-> ""])
    ELSE insert_nodes(file.nodes, file.namespace, cm)

\* parse_mappers_recursively: every *.xml file in turn, the first error ends
\* the walk.
RECURSIVE parse_mappers_recursively(_, _)
parse_mappers_recursively(dir, cm) ==
    IF dir = <<>> THEN Ok(cm)
    ELSE IF Head(dir).ext # "xml" THEN parse_mappers_recursively(Tail(dir), cm)
    ELSE LET r == process_mapper_file(Head(dir), cm) IN
         IF r.ok THEN parse_mappers_recursively(Tail(dir), r.v) ELSE r

\* One load of a directory into empty maps.
parse_mappers(dir) ==
    Called("parse_mappers", dir, parse_mappers_recursively(dir, EmptyContentMap))

\* rivus-utils/src/http_client.rs.  What req.send().await gives on an
\* attempt: a response of a status class, a timeout or another error.
SendOutcomes == {"2xx", "5xx", "4xx", "timeout", "connect"}
\* resp[k] is the outcome the k-th attempt meets.
Responses == [1 .. MaxRetries + 2 -> SendOutcomes]
\* A u32 as its two 16-bit halves: the value is hi * 65536 + lo.
Half == 65536
u32(k) == [hi |-> k \div Half, lo |-> k % Half]
U32Max == [hi |-> Half - 1, lo |-> Half - 1]
\* a <= b on u32
u32_le(a, b) == a.hi < b.hi \/ (a.hi = b.hi /\ a.lo <= b.lo)
\* a + 1 on u32: the sum modulo 2^32 and whether it overflowed.
u32_add1(a) ==
    IF a.lo + 1 < Half THEN [v |-> [a EXCEPT !.lo = @ + 1], overflow |-> FALSE]
    ELSE IF a.hi + 1 < Half THEN [v |-> [hi |-> a.hi + 1, lo |-> 0], overflow |-> FALSE]
    ELSE [v |-> u32(0), overflow |-> TRUE]
\* HttpClientBuilder::max_retries(u32): small values and u32::MAX.
RetryCounts == {u32(k) : k \in 0 .. MaxRetries} \cup {U32Max}

\* self.max_retries + 1 in u32: a build with overflow checks panics on
\* u32::MAX + 1, a build without them wraps to 0.
attempts(x) ==
    LET sum == u32_add1(x.max_retries) IN
    IF sum.overflow /\ x.overflow_checks
      THEN [panic |-> TRUE, end |-> u32(0)]
      ELSE [panic |-> FALSE, end |-> sum.v]

\* The body of `for attempt in 1..=end` from attempt on, after sleeps sleeps;
\* attempt - 1 attempts were made before.
RECURSIVE attempt_loop(_, _, _, _)
attempt_loop(x, end, attempt, sleeps) ==
    IF ~u32_le(attempt, end)
      THEN [panic |-> FALSE, ok |-> FALSE, e |-> "Max retries reached",
            attempts |-> attempt.lo - 1, sleeps |-> sleeps]
      ELSE LET response == x.resp[attempt.lo]
               returns(ok, e) == [panic |-> FALSE, ok |-> ok, e |-> e,
                                  attempts |-> attempt.lo, sleeps |-> sleeps]
           IN
           CASE response = "2xx" -> returns(TRUE, "")
             [] response = "5xx" /\ u32_le(attempt, x.max_retries)
                  -> attempt_loop(x, end, u32_add1(attempt).v, sleeps + 1)
             [] response \in {"5xx", "4xx"} -> returns(FALSE, "HTTP error")
             [] response = "timeout" /\ u32_le(attempt, x.max_retries)
                  -> attempt_loop(x, end, u32_add1(attempt).v, sleeps + 1)
             [] OTHER -> returns(FALSE, "Request failed")

\* HttpClient::send_request
send_request(x) ==
    LET range == attempts(x) IN
    Called("send_request", x,
           IF range.panic
             THEN [panic |-> TRUE, ok |-> FALSE, e |-> "attempt to add with overflow",
                   attempts |-> 0, sleeps |-> 0]
             ELSE attempt_loop(x, range.end, u32(1), 0))

NextFn ==
    /\ UNCHANGED <<txVars, regVars, tplVars, renVars, wsVars>>
    /\ fin = NoFnCall
    /\ \/ \E x \in RepoCalls : create(x)
       \/ \E c \in Cells, g \in Hints : decode_field(c, g)
       \/ \E c \in Cells, g \in Hints : decode_option(c, g)
       \/ \E val \in Values : to_param(val)
       \/ \E dir \in MapperDirs : parse_mappers(dir)
       \/ \E m \in RetryCounts, b \in BOOLEAN, r \in Responses :
             send_request([max_retries |-> m, overflow_checks |-> b, resp |-> r])

SpecFn == Init /\ [][NextFn]_vars

\* --------------------------------------------------------------- SpecWs
\* rivus-ws/src/conn_mgr.rs.  CONN_MGR is the manager behind its mutex:
\* connections maps a client to the ids of its connections (the Sender of
\* connection c is the sending end of chan[c]).  send_message keeps the mutex
\* over every sender.send(..).await, so while one is under way no other
\* manager call runs; the receiving ends belong to the connection tasks and
\* move on their own.
ConnIds == 0 .. MaxConns - 1

\* self.connections.get(&cli_id), an absent key read as no connections
ConnsOf(cm, cli) ==
    IF cli \in DOMAIN cm.connections THEN cm.connections[cli] ELSE {}
\* HashMap::insert(cli_id, ids) / HashMap::remove(&cli_id)
PutClient(m, cli, ids) ==
    [k \in DOMAIN m \cup {cli} |-> IF k = cli THEN ids ELSE m[k]]
DropClient(m, cli) == [k \in DOMAIN m \ {cli} |-> m[k]]

WsReturn(o, cli, res) == wlast' = [op |-> o, cli |-> cli, res |-> res]
\* The Senders of connections ids go with their map entries; a channel of no
\* Sender is out of the manager's reach and is kept as closed and empty.
SendersDropped(ch, ids) ==
    [c \in DOMAIN ch |-> IF c \in ids THEN [ch[c] EXCEPT !.q = <<>>, !.rx = FALSE]
                                       ELSE ch[c]]
MutexFreeWs == sending = NoSend

\* Variant: the lowest id not registered at the moment is handed out.
add_connection_Reuse(cli) ==
    LET used == UNION {ConnsOf(CONN_MGR, k) : k \in Clients}
        conn_id == CHOOSE c \in 0 .. MaxConns : c \notin used /\ \A d \in 0 .. c - 1 : d \in used
    IN
    /\ MutexFreeWs
    /\ conn_id < MaxConns
    /\ CONN_MGR' = [connections |-> PutClient(CONN_MGR.connections, cli,
                                              ConnsOf(CONN_MGR, cli) \cup {conn_id}),
                    next_conn_id |-> IF conn_id < CONN_MGR.next_conn_id
                                       THEN CONN_MGR.next_conn_id ELSE conn_id + 1]
    /\ chan' = [chan EXCEPT ![conn_id] = [q |-> <<>>, rx |-> TRUE, cli |-> cli]]
    /\ WsReturn("add_connection", cli, Ok(conn_id))
    /\ UNCHANGED sending
\* ConnectionManager::add_connection under CONN_MGR.lock().await; the sender
\* is that of a channel just made for the client's connection.
add_connection(cli) ==
    LET conn_id == CONN_MGR.next_conn_id IN
    /\ MutexFreeWs
    /\ conn_id < MaxConns
    /\ CONN_MGR' = [connections |-> PutClient(CONN_MGR.connections, cli,
                                              ConnsOf(CONN_MGR, cli) \cup {conn_id}),
                    next_conn_id |-> conn_id + 1]
    /\ chan' = [chan EXCEPT ![conn_id] = [q |-> <<>>, rx |-> TRUE, cli |-> cli]]
    /\ WsReturn("add_connection", cli, Ok(conn_id))
    /\ UNCHANGED sending

\* Variant: the client's entry stays when its last connection goes.
remove_connection_KeepEmpty(cli, conn_id) ==
    /\ MutexFreeWs
    /\ CONN_MGR' = IF cli \in DOMAIN CONN_MGR.connections
                     THEN [CONN_MGR EXCEPT !.connections[cli] = @ \ {conn_id}]
                     ELSE CONN_MGR
    /\ chan' = SendersDropped(chan, ConnsOf(CONN_MGR, cli) \cap {conn_id})
    /\ wlast' = NoWsCall
    /\ UNCHANGED sending
\* ConnectionManager::remove_connection under CONN_MGR.lock().await
remove_connection(cli, conn_id) ==
    /\ MutexFreeWs
    /\ CONN_MGR' =
          IF cli \in DOMAIN CONN_MGR.connections
            THEN LET cli_conns == CONN_MGR.connections[cli] \ {conn_id} IN
                 IF cli_conns = {}
                   THEN [CONN_MGR EXCEPT !.connections = DropClient(@, cli)]
                   ELSE [CONN_MGR EXCEPT !.connections[cli] = cli_conns]
            ELSE CONN_MGR
    /\ chan' = SendersDropped(chan, ConnsOf(CONN_MGR, cli) \cap {conn_id})
    /\ wlast' = NoWsCall
    /\ UNCHANGED sending

\* Variant: the failed connections stay registered.
send_rest_KeepFailed(s, ch) ==
    IF s.todo = {}
      THEN /\ sending' = NoSend
           /\ chan' = ch
           /\ WsReturn("send_message", s.cli, Ok(s.body))
           /\ UNCHANGED CONN_MGR
      ELSE /\ chan' = ch
           /\ sending' = s
           /\ wlast' = NoWsCall
           /\ UNCHANGED CONN_MGR
\* send_message once the loop has s.todo left to send to, the channels
\* being ch: with nothing left the failed connections are removed, the
\* client with them when none stays, and the call returns Ok; the mutex
\* guard is dropped.
send_rest(s, ch) ==
    IF s.todo = {}
      THEN LET cli_conns == ConnsOf(CONN_MGR, s.cli) \ s.failed IN
           /\ CONN_MGR' =
                 IF cli_conns = {}
                   THEN [CONN_MGR EXCEPT !.connections = DropClient(@, s.cli)]
                   ELSE [CONN_MGR EXCEPT !.connections[s.cli] = cli_conns]
           /\ chan' = SendersDropped(ch, s.failed)
           /\ sending' = NoSend
           /\ WsReturn("send_message", s.cli, Ok(s.body))
      ELSE /\ chan' = ch
           /\ sending' = s
           /\ wlast' = NoWsCall
           /\ UNCHANGED CONN_MGR

\* send_message(cli_id, body): CONN_MGR.lock().await and the lookup.
send_message(cli, body) ==
    /\ MutexFreeWs
    /\ IF cli \in DOMAIN CONN_MGR.connections
         THEN send_rest([cli |-> cli, body |-> body,
                         todo |-> CONN_MGR.connections[cli], failed |-> {}], chan)
         ELSE /\ WsReturn("send_message", cli, Err("Client not found"))
              /\ UNCHANGED <<CONN_MGR, chan, sending>>

\* One sender.send(body.clone()).await of the loop, in the map's iteration
\* order: Err when the receiving end is gone, the body queued when the
\* channel has room; a full channel keeps the call waiting.
send_one(c) ==
    /\ sending # NoSend
    /\ c \in sending.todo
    /\ IF ~chan[c].rx
         THEN send_rest([sending EXCEPT !.todo = @ \ {c}, !.failed = @ \cup {c}], chan)
         ELSE /\ Len(chan[c].q) < MaxQueue
              /\ send_rest([sending EXCEPT !.todo = @ \ {c}],
                           [chan EXCEPT ![c].q = Append(@, sending.body)])

\* The connection's task takes a message off its channel (rx.next()).
recv(c) ==
    /\ chan[c].rx /\ chan[c].q # <<>>
    /\ chan' = [chan EXCEPT ![c].q = Tail(@)]
    /\ wlast' = NoWsCall
    /\ UNCHANGED <<CONN_MGR, sending>>
\* The connection's task ends and drops the receiving end.
drop_rx(c) ==
    /\ chan[c].cli # 0 /\ chan[c].rx
    /\ chan' = [chan EXCEPT ![c].rx = FALSE]
    /\ wlast' = NoWsCall
    /\ UNCHANGED <<CONN_MGR, sending>>

NextWs ==
    /\ UNCHANGED <<txVars, regVars, tplVars, renVars, fnVars>>
    /\ \/ \E cli \in Clients : add_connection(cli)
       \/ \E cli \in Clients, conn_id \in ConnIds : remove_connection(cli, conn_id)
       \/ \E cli \in Clients, body \in Bodies : send_message(cli, body)
       \/ \E c \in ConnIds : send_one(c)
       \/ \E c \in ConnIds : recv(c)
       \/ \E c \in ConnIds : drop_rx(c)
    /\ UNCHANGED hc

SpecWs == Init /\ [][NextWs]_vars

\* --------------------------------------------------------------- SpecHc
\* rivus-ws/src/ws_handler.rs.  hc[c] is the handle_connection call that
\* registered connection c: stalled says that the peer reads no more, so
\* that sender.send(message).await on the socket stays pending; waiting
\* holds the tasks that left their loop and await CONN_MGR.lock(); handler
\* says that a close_handler was given and closes counts its invocations.
\* select(..) ends the call with the first task that ends and drops the
\* other two.
Returned(t, closes) ==
    [st |-> "done", stalled |-> FALSE, waiting |-> {}, handler |-> t.handler,
     closes |-> closes]

\* handle_connection up to the select: the channels, add_connection under
\* the lock, the three tasks.
handle_connection(cli_id, close_handler) ==
    /\ CONN_MGR.next_conn_id < MaxTasks
    /\ add_connection(cli_id)
    /\ hc' = [hc EXCEPT ![CONN_MGR.next_conn_id] =
                  [st |-> "run", stalled |-> FALSE, waiting |-> {},
                   handler |-> close_handler, closes |-> 0]]

\* sender_task: combined_stream.next() gives a text message and
\* sender.send(message) writes it to the socket.
sender_task(c) ==
    /\ hc[c].st = "run" /\ ~hc[c].stalled
    /\ recv(c)
    /\ UNCHANGED hc
\* sender_task: sender.send(message) returns Err for a text message or for a
\* ping of the ping task; the task breaks, select returns and the call ends
\* with its receivers dropped.
sender_fail(c) ==
    /\ hc[c].st = "run"
    /\ chan[c].q # <<>> \/ "ping" \notin hc[c].waiting
    /\ hc' = [hc EXCEPT ![c] = Returned(@, 0)]
    /\ chan' = [chan EXCEPT ![c] = [@ EXCEPT !.q = <<>>, !.rx = FALSE]]
    /\ wlast' = NoWsCall
    /\ UNCHANGED <<CONN_MGR, sending>>
\* The peer stops reading: writes to the socket stay pending.
socket_stall(c) ==
    /\ hc[c].st = "run" /\ ~hc[c].stalled
    /\ hc' = [hc EXCEPT ![c].stalled = TRUE]
    /\ wlast' = NoWsCall
    /\ UNCHANGED <<CONN_MGR, chan, sending>>

\* The end of the ping task and of the receive task once the lock is theirs:
\* remove_connection, the close handler under the lock; the task ends and
\* with it the call.
cleanup(c) ==
    /\ remove_connection(chan[c].cli, c)
    /\ hc' = [hc EXCEPT ![c] = Returned(@, IF @.handler THEN 1 ELSE 0)]

\* A task leaves its loop and comes to CONN_MGR.lock().await: the lock is
\* taken in the same poll when it is free, the task waits for it otherwise.
leave_loop(c, task) ==
    /\ hc[c].st = "run" /\ task \notin hc[c].waiting
    /\ IF MutexFreeWs
         THEN cleanup(c)
         ELSE /\ hc' = [hc EXCEPT ![c].waiting = @ \cup {task}]
              /\ wlast' = NoWsCall
              /\ UNCHANGED <<CONN_MGR, chan, sending>>
\* create_ping_task: last activity older than PING_TIMEOUT, break.
ping_timeout(c) == leave_loop(c, "ping")
\* create_receive_task: Message::Close, Err(e) or the end of the stream.
receive_end(c) == leave_loop(c, "receive")
\* A waiting task gets the lock.
lock_acquired(c) ==
    /\ hc[c].st = "run" /\ hc[c].waiting # {}
    /\ cleanup(c)

HcStep(A) == A /\ UNCHANGED <<txVars, regVars, tplVars, renVars, fnVars>>
NextHc ==
    \/ \E cli \in Clients, h \in BOOLEAN : HcStep(handle_connection(cli, h))
    \/ \E cli \in Clients, body \in Bodies : HcStep(send_message(cli, body) /\ UNCHANGED hc)
    \/ \E c \in ConnIds : HcStep(send_one(c) /\ UNCHANGED hc)
    \/ \E c \in ConnIds : HcStep(sender_task(c))
    \/ \E c \in ConnIds : HcStep(sender_fail(c))
    \/ \E c \in ConnIds : HcStep(socket_stall(c))
    \/ \E c \in ConnIds : HcStep(ping_timeout(c))
    \/ \E c \in ConnIds : HcStep(receive_end(c))
    \/ \E c \in ConnIds : HcStep(lock_acquired(c))

SpecHc == Init /\ [][NextHc]_vars

\* The runtime polls every task that can go on: a send_message under way
\* sends to the next channel that takes the body, a sender_task writes the
\* next message to a socket that takes it, and a task waiting for the lock
\* gets it (the tokio Mutex serves its waiters in order).  Nothing makes the
\* peers, the clients of the manager or the timers act.
SpecHcFair ==
    /\ SpecHc
    /\ WF_vars(\E c \in ConnIds : HcStep(send_one(c) /\ UNCHANGED hc))
    /\ \A c \in ConnIds : WF_vars(HcStep(sender_task(c)))
    /\ \A c \in ConnIds : SF_vars(HcStep(lock_acquired(c)))

\* ------------------------------------------------------- claims on Spec
\* The scope map entry a fiber's unit holds for the name of handle h.
EntryOf(f, h) == TRANSACTION_CONTEXT[unitOf[f]][Handles[h].name]

\* C2: a start_transaction on a name whose transaction is still active in
\* the scope fails, and leaves the first transaction's map entry and its
\* connection as they were.
C2_SecondStartFails ==
    [][\A f \in Fibers :
         (/\ pc[f] = "begin" /\ pc'[f] = "idle"
          /\ scope[unitOf[f]] /\ EntryOf(f, hd[f]) # NoConn)
         => /\ IsErr(last'.r)
            /\ TRANSACTION_CONTEXT' = TRANSACTION_CONTEXT
            /\ EntryOf(f, hd[f]) \notin idle']_vars

\* A statement of a CRUD call of fiber f has run in this step without a
\* driver error.
RanOk(f) == pc'[f] = "next" \/ (last'.f = f /\ last'.r \in {"Ok", "ErrNoRow"})

\* C3: a CRUD call dispatched while the scope holds a transaction for the
\* handle's name takes that transaction's connection and nothing from the
\* pool, keeps it until its statement has run on it, writes inside the
\* transaction, and leaves the connection checked out when it finishes while
\* the transaction is still active.  (A call cut short by the unwinding of
\* its unit of work runs no statement and is not constrained.)
C3_Dispatch(f) ==
    (/\ pc[f] \in {"idle", "next"} /\ pc'[f] \in {"lock", "pool"}
     /\ op'[f] \in CrudKinds
     /\ scope[unitOf[f]] /\ EntryOf(f, hd'[f]) # NoConn)
    => /\ pc'[f] = "lock"
       /\ arc'[f] = EntryOf(f, hd'[f])
       /\ idle' = idle

C3_Keep(f) ==
    (pc[f] = "lock" /\ op[f] \in CrudKinds)
    => \/ pc'[f] = "dead"
       \/ pc'[f] \in {"lock", "exec"} /\ arc'[f] = arc[f]

C3_Exec(f) ==
    (/\ pc[f] = "exec" /\ pc'[f] \in {"idle", "next"} /\ op[f] \in CrudKinds
     /\ scope[unitOf[f]] /\ EntryOf(f, hd[f]) = arc[f]
     /\ Handles[hd[f]].pool = PoolOf(arc[f]))
    => /\ idle' = idle
       /\ last'.f = f => last'.c = arc[f]
       /\ (RanOk(f) /\ op[f] \in WriteKinds)
             => unitOf[f] \in pending'[arc[f]] /\ db' = db

C3_OnTransaction ==
    [][\A f \in Fibers : C3_Dispatch(f) /\ C3_Keep(f) /\ C3_Exec(f)]_vars

\* A write of a CRUD call has returned Ok after running on the connection of
\* its scope's transaction, which is still active and checked out.
C3_Witness ==
    /\ last.op = "crud" /\ last.r = "Ok" /\ last.c # NoConn
    /\ scope[unitOf[last.f]]
    /\ TRANSACTION_CONTEXT[unitOf[last.f]]["a"] = last.c
    /\ unitOf[last.f] \in pending[last.c]
    /\ last.c \notin idle

\* C4: a transaction's connection is visible in one unit of work only: it is
\* in the map of at most one scope, no call of another unit holds it, and a
\* CRUD, commit or rollback call holds a connection only inside a scope.
C4_ScopeLocal ==
    /\ \A u, v \in Units, n, m \in Names :
          (TRANSACTION_CONTEXT[u][n] # NoConn
             /\ TRANSACTION_CONTEXT[u][n] = TRANSACTION_CONTEXT[v][m]) => u = v
    /\ \A f \in Fibers, u \in Units, n \in Names :
          (arc[f] # NoConn /\ TRANSACTION_CONTEXT[u][n] = arc[f]) => u = unitOf[f]
    /\ \A f, g \in Fibers :
          (arc[f] # NoConn /\ arc[f] = arc[g]) => unitOf[f] = unitOf[g]
    /\ \A f \in Fibers :
          (arc[f] # NoConn /\ op[f] # "start") => scope[unitOf[f]]
    /\ \A u \in Units : ~scope[u] => TRANSACTION_CONTEXT[u] = EmptyMap

\* Unit 1 holds a transaction on name "a" while fiber 3, in the scope of
\* unit 2, has looked the same name up, found nothing and is at the pool.
C4_Witness ==
    /\ scope[1] /\ TRANSACTION_CONTEXT[1]["a"] # NoConn
    /\ scope[2] /\ pc[3] = "pool" /\ Handles[hd[3]].name = "a"

\* C5: at most one call executes on a transaction's connection at any time.
C5_Serialized ==
    \A c \in Conns : Cardinality({f \in Fibers : pc[f] = "exec" /\ arc[f] = c}) <= 1

\* Two CRUD calls of one scope on the same transaction: one executes, the
\* other waits for the guard.
C5_Witness ==
    \E f, g \in Fibers :
        /\ f # g /\ unitOf[f] = unitOf[g]
        /\ op[f] \in CrudKinds /\ op[g] \in CrudKinds
        /\ pc[f] = "exec" /\ pc[g] = "lock" /\ arc[f] = arc[g]


\* The transaction-map entries of the live scopes that name a connection of
\* pool p, and the connections of p that are checked out.
EntriesOf(p) ==
    {e \in Units \X Names :
        /\ scope[e[1]]
        /\ TRANSACTION_CONTEXT[e[1]][e[2]] # NoConn
        /\ PoolOf(TRANSACTION_CONTEXT[e[1]][e[2]]) = p}
CheckedOut(p) == {c \in Conns : PoolOf(c) = p /\ c \notin idle}
NoCallInProgress == \A f \in Fibers : pc[f] \in {"idle", "dead"}

\* C6: a commit or rollback that ran has removed its entry and given the
\* connection back to the pool, and whenever no call is in progress each
\* pool has exactly as many connections checked out as the live scopes hold
\* transaction-map entries for it (the connections of those entries).
C6_Released ==
    /\ (last.op \in {"commit", "rollback"} /\ last.c # NoConn)
          => /\ \A u \in Units, n \in Names : TRANSACTION_CONTEXT[u][n] # last.c
             /\ (\A f \in Fibers : arc[f] # last.c) => last.c \in idle
    /\ NoCallInProgress
          => \A p \in Pools :
               /\ CheckedOut(p) = {TRANSACTION_CONTEXT[e[1]][e[2]] : e \in EntriesOf(p)}
               /\ Cardinality(CheckedOut(p)) = Cardinality(EntriesOf(p))

\* A commit has returned Ok, its connection is back in the pool with no
\* transaction open, and no call is in progress.
C6_Witness ==
    /\ last.op = "commit" /\ last.r = "Ok"
    /\ last.c \in idle /\ ~inTx[last.c]
    /\ db[PoolOf(last.c)] # {}
    /\ NoCallInProgress

\* C7: when COMMIT or ROLLBACK fails, the call returns the error and the
\* transaction's entry is gone from the scope map; where the unit of work
\* makes its calls one after the other, the name has no entry then, the next
\* commit or rollback on it reports no active transaction and the next CRUD
\* call on it goes to the pool.
C7_Gone(f) ==
    (/\ pc[f] = "exec" /\ op[f] \in {"commit", "rollback"}
     /\ last'.f = f /\ last'.r = "ErrDriver")
    => /\ \A u \in Units, n \in Names : TRANSACTION_CONTEXT'[u][n] # arc[f]
       /\ FibersOf(unitOf[f]) = {f}
             => TRANSACTION_CONTEXT'[unitOf[f]][Handles[hd[f]].name] = NoConn

C7_FollowUp(f) ==
    (/\ last.f = f /\ last.r = "ErrDriver" /\ last.op \in {"commit", "rollback"}
     /\ FibersOf(unitOf[f]) = {f} /\ scope[unitOf[f]]
     /\ pc[f] = "idle")
    => /\ (last'.f = f /\ last'.op \in {"commit", "rollback"}
             /\ Handles[last'.h].name = Handles[last.h].name)
          => last'.r = IF last'.op = "commit" THEN "ErrNoTxCommit" ELSE "ErrNoTxRollback"
       /\ (/\ pc'[f] # "idle" /\ op'[f] \in CrudKinds
           /\ Handles[hd'[f]].name = Handles[last.h].name)
          => pc'[f] = "pool"

C7_FailedEnd ==
    [][\A f \in Fibers : C7_Gone(f) /\ C7_FollowUp(f)]_vars

\* A COMMIT has failed: the call returned the driver's error, its scope is
\* still entered and has no entry for the name, and the connection is back
\* in the pool with the transaction still open on it.
C7_Witness ==
    /\ last.op = "commit" /\ last.r = "ErrDriver"
    /\ scope[unitOf[last.f]]
    /\ TRANSACTION_CONTEXT[unitOf[last.f]][Handles[last.h].name] = NoConn
    /\ last.c \in idle /\ inTx[last.c]

\* C8: commit_transaction and rollback_transaction go on to the connection
\* only when the scope holds an entry for the name; otherwise they return an
\* error at once, with no statement issued and the maps, the connections and
\* the database as they were.
C8_NoEntry ==
    [][\A f \in Fibers :
         /\ (pc[f] = "idle" /\ pc'[f] = "lock" /\ op'[f] \in {"commit", "rollback"})
               => scope[unitOf[f]] /\ EntryOf(f, hd'[f]) # NoConn
         /\ (/\ pc[f] = "idle" /\ pc'[f] = "idle"
             /\ last'.f = f /\ last'.op \in {"commit", "rollback"})
               => /\ ~scope[unitOf[f]] \/ EntryOf(f, last'.h) = NoConn
                  /\ last'.r \in {"ErrScope", "ErrNoTxCommit", "ErrNoTxRollback"}
                  /\ last'.c = NoConn
                  /\ UNCHANGED <<TRANSACTION_CONTEXT, scope, connVars>>]_vars

\* A commit on a name without an entry has been refused while the same scope
\* holds a transaction under another name.
C8_Witness ==
    /\ last.op = "commit" /\ last.r = "ErrNoTxCommit"
    /\ Handles[last.h].name = "b"
    /\ scope[unitOf[last.f]]
    /\ TRANSACTION_CONTEXT[unitOf[last.f]]["a"] # NoConn

\* C9: a start_transaction that fails because no scope is entered or because
\* the handle's kind is unrecognized adds no entry to any map and leaves no
\* transaction open on the connection it used.
C9_FailedStartClean ==
    [][(last'.op = "start" /\ last'.r \in {"ErrScopeStart", "ErrTxUnsupported"})
         => /\ TRANSACTION_CONTEXT' = TRANSACTION_CONTEXT
            /\ last'.c # NoConn => ~inTx'[last'.c]]_vars

\* C10: a write of a CRUD or execute_raw call made outside any scope that
\* ran on a connection of the pool is committed when the call completes.
C10_AutoCommit ==
    [][\A f \in Fibers :
         (/\ pc[f] = "pool" /\ ~scope[unitOf[f]]
          /\ op[f] \in WriteKinds /\ last'.f = f /\ last'.r = "Ok")
         => unitOf[f] \in db'[Handles[hd[f]].pool]]_vars


\* ---------------------------------------------------- claims on SpecReg
\* No open or close on name n is in progress, and none has overlapped
\* another: the calls on n so far form a sequence.
Sequential(n) == ~raced[n] /\ \A c \in RegCallers : rpc[c] = "idle" \/ rarg[c].n # n

\* C11: close(name) removes the entry and returns true when the name is
\* registered at the call, returns false and changes nothing otherwise, and
\* never returns anything else; while the last call on a name was a close
\* (or the name was never opened), by(name) returns nothing and close(name)
\* returns false.
C11_Call(c) ==
    /\ (rpc[c] = "idle" /\ rpc'[c] = "closing")
          => /\ DBS[rarg'[c].n] # NoPool
             /\ rarg'[c].h = DBS[rarg'[c].n]
             /\ DBS' = [DBS EXCEPT ![rarg'[c].n] = NoPool]
    /\ (rpc[c] = "idle" /\ rpc'[c] = "idle" /\ rlast'.c = c /\ rlast'.op = "close")
          => /\ DBS[rlast'.n] = NoPool
             /\ rlast'.r = "false"
             /\ DBS' = DBS
    /\ rpc[c] = "closing"
          => \/ rpc'[c] = "closing"
             \/ rlast'.c = c /\ rlast'.op = "close" /\ rlast'.r = "true"

C11_After(n) ==
    (Sequential(n) /\ opened[n] = "")
    => /\ (rlast'.op = "by" /\ rlast'.n = n) => rlast'.r = "None"
       /\ (rlast'.op = "close" /\ rlast'.n = n) => rlast'.r = "false"
       /\ \A c \in RegCallers : rpc'[c] = "closing" => rarg'[c].n # n

C11_Close ==
    [][(\A c \in RegCallers : C11_Call(c)) /\ (\A n \in RegNames : C11_After(n))]_vars

\* A second close of a name has returned false after the first one closed
\* the pool registered under it.
C11_Witness ==
    /\ rlast.op = "close" /\ rlast.r = "false"
    /\ Sequential(rlast.n)
    /\ \E h \in closed : h.name = rlast.n

\* C12: after a sequence of open and close calls on a name, by(name) returns
\* a handle exactly when the last of them was an open that returned Ok; the
\* handle carries the name and the engine kind of the type given to that
\* open; get() returns what by("default") returns.
C12_Lookup ==
    /\ (rlast.op \in {"by", "get"} /\ Sequential(rlast.n))
          => /\ rlast.r = "Some" <=> opened[rlast.n] # ""
             /\ rlast.r = "None" <=> rlast.h = NoPool
             /\ rlast.r = "Some"
                   => /\ rlast.h.name = rlast.n
                      /\ rlast.h.type = opened[rlast.n]
                      /\ rlast.h.inner = InnerOf(opened[rlast.n])
                      /\ rlast.h \notin closed
    /\ rlast.op = "get" => rlast.n = "default" /\ rlast.h = DBS["default"]
    /\ rlast.op = "by" => rlast.h = DBS[rlast.n]

\* by("x") has returned the handle of a pool opened with an unrecognized
\* type after an earlier pool under that name was closed.
C12_Witness ==
    /\ rlast.op = "by" /\ rlast.n = "x" /\ rlast.r = "Some"
    /\ rlast.h.inner = "other"
    /\ Sequential("x")
    /\ \E h \in closed : h.name = "x"

\* C13: an open on a name that is already registered leaves the handle and
\* pool registered first in place, whether it returns Ok or an error.
C13_OpenIdempotent ==
    [][\A c \in RegCallers :
         (rpc[c] = "new" /\ rpc'[c] = "idle" /\ DBS[rarg[c].n] # NoPool)
         => DBS'[rarg[c].n] = DBS[rarg[c].n]]_vars


\* ---------------------------------------------------- claims on SpecTpl
\* What rendering a content as given yields against the cache as it is.
RenderIn(content, cache) == render(parse(content), RenderStart(TplRoot), cache)
RenderOf(content) == RenderIn(content, TEMPLATE_CACHE)
TplIdle == \A th \in TplThreads : tpc[th] = "idle"

\* C14: a render_template call parses exactly when the cache has no entry
\* under the name or the entry's content differs; a parse puts the new
\* content and its AST under the name; a render straight after a render of
\* the same name and content does not parse; and every render returns the
\* SQL of the content it was given.
C14_Call(th) ==
    (tpc[th] = "idle" /\ tpc'[th] # "idle")
    => LET n == targ'[th].n
           c == targ'[th].content
           miss == ~TEMPLATE_CACHE[n].has \/ TEMPLATE_CACHE[n].content # c
       IN /\ parses' = IF miss THEN parses + 1 ELSE parses
          /\ targ'[th].parsed = miss
          /\ miss => tpc'[th] = "insert"
          /\ ~miss => tpc'[th] = "render" /\ targ'[th].ast = TEMPLATE_CACHE[n].ast
          /\ (/\ tlast.op = "render" /\ tlast.n = n /\ tlast.content = c
              /\ TplIdle /\ ~tover[n]) => ~miss

C14_Insert(th) ==
    (tpc[th] = "insert" /\ tpc'[th] # "insert")
    => TEMPLATE_CACHE'[targ[th].n] =
           [has |-> TRUE, content |-> targ[th].content, ast |-> parse(targ[th].content)]

C14_Out ==
    tlast'.op = "render" => tlast'.sql = RenderIn(tlast'.content, TEMPLATE_CACHE').sql

C14_ParseOnChange ==
    [][/\ \A th \in TplThreads : C14_Call(th) /\ C14_Insert(th)
       /\ (parses' # parses => \E th \in TplThreads : tpc[th] = "idle" /\ tpc'[th] = "insert")
       /\ C14_Out]_vars

\* The name was rendered with one content, then with another, and the
\* second render has returned the SQL of the new content from a fresh parse.
C14_Witness ==
    /\ tlast.op = "render" /\ tlast.parsed /\ parses = 2 /\ renders = 2
    /\ ~tover[tlast.n] /\ tlast.n = "part"
    /\ tlast.content = "select 2 ..."
    /\ tlast.sql = <<"select 2 from test where id = ", "?">>
    /\ TEMPLATE_CACHE["part"].content = "select 2 ..."
    /\ ~TEMPLATE_CACHE["main"].has

\* C15: at every moment each cache entry pairs a content with the AST parsed
\* from that content, each call in progress holds the AST of its own content,
\* and each render returns the SQL and parameters of its own content.
C15_Consistent ==
    /\ \A n \in TplNames :
          TEMPLATE_CACHE[n].has => TEMPLATE_CACHE[n].ast = parse(TEMPLATE_CACHE[n].content)
    /\ \A th \in TplThreads :
          tpc[th] # "idle" => targ[th].ast = parse(targ[th].content)
    /\ tlast.op = "render"
          => /\ tlast.sql = RenderOf(tlast.content).sql
             /\ tlast.params = RenderOf(tlast.content).params
             /\ tlast.err = RenderOf(tlast.content).err

\* Two threads are inside render_template on one name with different
\* contents while the name is cached.
C15_Witness ==
    /\ tpc[1] = "render" /\ tpc[2] = "insert"
    /\ targ[1].n = targ[2].n /\ targ[1].content # targ[2].content
    /\ TEMPLATE_CACHE[targ[1].n].has

\* C16: only remove_template(name) takes an entry out of the cache, and it
\* takes out that entry alone (nothing when the name is not cached); the
\* render that follows it under the name parses again, and an Include of a
\* name resolves exactly while the name is cached.
C16_Remove ==
    [][/\ tlast'.op = "remove"
             => TEMPLATE_CACHE' = [TEMPLATE_CACHE EXCEPT ![tlast'.n] = NoEntry]
       /\ (tlast'.op = "remove" /\ ~TEMPLATE_CACHE[tlast'.n].has)
             => TEMPLATE_CACHE' = TEMPLATE_CACHE
       /\ \A n \in TplNames :
             (TEMPLATE_CACHE[n].has /\ ~TEMPLATE_CACHE'[n].has)
                => tlast'.op = "remove" /\ tlast'.n = n
       /\ \A th \in TplThreads :
             (/\ tlast.op = "remove" /\ tpc[th] = "idle" /\ tpc'[th] # "idle"
              /\ targ'[th].n = tlast.n) => parses' = parses + 1
       /\ (tlast'.op = "render" /\ tlast'.content = "select <include> ...")
             => (tlast'.err = "include not found: part" <=> ~TEMPLATE_CACHE["part"].has)]_vars

\* "part" was cached and included by "main", then removed: the render of
\* "main" from its cached AST no longer resolves the include.
C16_Witness ==
    /\ tlast.op = "render" /\ tlast.err = "include not found: part"
    /\ ~tlast.parsed /\ tlast.n = "main"
    /\ parses = 2 /\ renders = 3
    /\ ~TEMPLATE_CACHE["part"].has


\* ------------------------------------------------- claims on SpecRender
\* The reference the renders are compared with: the pieces a template
\* denotes under an environment (a function from keys to values, a loop
\* variable overriding its key for the loop body only), each piece a literal
\* text or a placeholder with the value it stands for.
C17_Keys == {"name", "ids", "ids2", "i", "j"}
C17_Env(root) ==
    [k \in C17_Keys |->
        IF root.map /\ k \in DOMAIN root.m /\ root.m[k] # Absent THEN root.m[k] ELSE Null]
C17_Param(val) == [tag |-> IF val.tag = "Str" THEN "String" ELSE val.tag, v |-> val.v]
C17_Lit(x) == [x |-> x, ph |-> FALSE, p |-> C17_Param(Null)]

RECURSIVE C17_Pieces(_, _)
RECURSIVE C17_Loop(_, _, _, _)
C17_Loop(node, items, j, env) ==
    IF j > Len(items) THEN <<>>
    ELSE (IF j > 1 THEN <<C17_Lit(node.sep)>> ELSE <<>>)
         \o C17_Pieces(node.body, [env EXCEPT ![node.item] = items[j]])
         \o C17_Loop(node, items, j + 1, env)

C17_Pieces(ast, env) ==
    IF ast = <<>> THEN <<>>
    ELSE LET node == Head(ast) IN
         (CASE node.t = "Text" -> <<C17_Lit(node.s)>>
            [] node.t = "Var" -> <<[x |-> "?", ph |-> TRUE, p |-> C17_Param(env[node.s])]>>
            [] node.t = "If" ->
                 IF (env[node.test.key] # Null) = (node.test.op = "ne_null")
                   THEN C17_Pieces(node.body, env) ELSE <<>>
            [] node.t = "For" ->
                 <<C17_Lit(node.open)>>
                 \o C17_Loop(node, env[node.collection].items, 1, env)
                 \o <<C17_Lit(node.close)>>
            [] node.t = "Include" -> C17_Pieces(RenderCache[node.refid].ast, env))
         \o C17_Pieces(Tail(ast), env)

C17_IsPh(piece) == piece.ph
Rendered == rout.done /\ rout.err = ""

\* C17: a render that succeeds returns as many parameters as its SQL has
\* placeholders, and the i-th parameter is the value its i-th placeholder
\* stands for, whether the placeholder comes from the top level, an If body,
\* a For iteration or an included template.
C17_ParamOrder ==
    Rendered
    => LET pieces == C17_Pieces(Templates[rin.t], C17_Env(rin.root))
           phs == SelectSeq(pieces, C17_IsPh)
       IN /\ rout.sql = [j \in 1 .. Len(pieces) |-> pieces[j].x]
          /\ Cardinality({j \in 1 .. Len(rout.sql) : rout.sql[j] = "?"}) = Len(rout.params)
          /\ rout.params = [j \in 1 .. Len(phs) |-> phs[j].p]

\* The template with an include and an If has rendered: the parameter of
\* the included Var comes first, that of the If body second.
C17_Witness ==
    /\ Rendered /\ rin.t = 6
    /\ rout.sql = <<"select ", "id, name = ", "?", " and name = ", "?", " from users">>
    /\ rout.params = <<[tag |-> "String", v |-> "tom"], [tag |-> "String", v |-> "tom"]>>

\* C18: the For template over a list of n >= 1 elements renders the open
\* text, n placeholders with n-1 separators between them, and the close
\* text, and its parameters are the n elements in list order.
C18_For ==
    (rout.done /\ rin.t = 2 /\ rin.root.map /\ rin.root.m["ids"].tag = "List"
       /\ Len(rin.root.m["ids"].items) >= 1)
    => LET ids == rin.root.m["ids"].items
           n == Len(ids)
       IN /\ rout.err = ""
          /\ rout.sql = [j \in 1 .. (2 * n + 1) |->
                           IF j = 1 THEN " and id in ("
                           ELSE IF j = 2 * n + 1 THEN ")"
                           ELSE IF j % 2 = 0 THEN "?" ELSE ","]
          /\ rout.params = [j \in 1 .. n |-> [tag |-> "I64", v |-> ids[j].v]]

\* ids = [1,2,3] has yielded ' and id in (?,?,?)' with parameters [1,2,3].
C18_Witness ==
    /\ rout.done /\ rin.t = 2
    /\ rout.sql = <<" and id in (", "?", ",", "?", ",", "?", ")">>
    /\ rout.params = <<[tag |-> "I64", v |-> "1"], [tag |-> "I64", v |-> "2"],
                       [tag |-> "I64", v |-> "3"]>>

\* C19: the If with test 'name != null' contributes its text and its
\* parameter when name is a non-null value, and nothing when name is null or
\* absent.
C19_If ==
    (rout.done /\ rin.t = 3)
    => LET nm == IF rin.root.map THEN rin.root.m["name"] ELSE Absent IN
       /\ rout.err = ""
       /\ nm \in {Null, Absent} => rout.sql = <<"select">> /\ rout.params = <<>>
       /\ nm \notin {Null, Absent}
             => /\ rout.sql = <<"select", " and name = ", "?">>
                /\ rout.params = <<[tag |-> "String", v |-> nm.v]>>

\* name is null in the parameter and the If body has been left out.
C19_Witness ==
    /\ rout.done /\ rin.t = 3 /\ rin.root.map /\ rin.root.m["name"] = Null
    /\ rout.sql = <<"select">> /\ rout.params = <<>>

\* C20: in nested loops a lookup of the loop variable yields the element of
\* the innermost loop binding it, the outer binding again after the inner
\* loop, and the root's value (Null when the root has none) outside the
\* loops; a successful render leaves the local-scope stack empty as it
\* found it.
C20_Root(k) ==
    IF rin.root.map /\ rin.root.m[k] # Absent THEN C17_Param(rin.root.m[k])
    ELSE C17_Param(Null)

C20_Scopes ==
    Rendered
    => /\ rout.locals = <<>>
       /\ rin.t = 4
             => LET xs == rin.root.m["ids"].items
                    ys == rin.root.m["ids2"].items
                    w == Len(ys) + 2
                    total == 2 + Len(xs) * w
                IN rout.params =
                     [p \in 1 .. total |->
                        IF p = 1 \/ p = total THEN C20_Root("i")
                        ELSE LET blk == (p - 2) \div w
                                 off == (p - 2) % w
                             IN IF off = 0 \/ off = w - 1 THEN C17_Param(xs[blk + 1])
                                ELSE C17_Param(ys[off])]
       /\ rin.t = 5
             => LET xs == rin.root.m["ids"].items
                    ys == rin.root.m["ids2"].items
                    w == 1 + 2 * Len(ys)
                    total == Len(xs) * w + 1
                IN rout.params =
                     [p \in 1 .. total |->
                        IF p = total THEN C17_Param(Null)
                        ELSE LET blk == (p - 1) \div w
                                 off == (p - 1) % w
                             IN IF off = 0 THEN C17_Param(Null)
                                ELSE IF off % 2 = 1 THEN C17_Param(xs[blk + 1])
                                ELSE C17_Param(ys[off \div 2])]

\* Two nested loops over a variable named like a root key have rendered:
\* the root's value before and after, the outer element around the inner
\* elements.
C20_Witness ==
    /\ Rendered /\ rin.t = 4
    /\ rin.root.m["i"] = Str("root")
    /\ rin.root.m["ids"] = List(<<I64("1"), I64("2")>>)
    /\ rin.root.m["ids2"] = List(<<I64("7"), I64("8")>>)
    /\ rout.params =
         <<[tag |-> "String", v |-> "root"],
           [tag |-> "I64", v |-> "1"], [tag |-> "I64", v |-> "7"],
           [tag |-> "I64", v |-> "8"], [tag |-> "I64", v |-> "1"],
           [tag |-> "I64", v |-> "2"], [tag |-> "I64", v |-> "7"],
           [tag |-> "I64", v |-> "8"], [tag |-> "I64", v |-> "2"],
           [tag |-> "String", v |-> "root"]>>

\* ------------------------------------------------- claims on includes
\* C21: an include is rendered in place and transitively.  The root template
\* "select {name} <include part2/>, c from t {i}" with part2 =
\* "{i} <include part1/>, b" and part1 = "a = {name}" renders part1's text
\* inside part2's and part2's inside the root's, and the parameters of the
\* included templates stand in the parameter list where the include stands;
\* the single include of "cols" puts its text and parameter right after the
\* text that precedes it.
C21_Include ==
    /\ (rout.done /\ rin.t = 11)
       => /\ rout.err = ""
          /\ rout.sql = <<"select ", "?", "?", "a = ", "?", ", b", ", c from t", "?">>
          /\ rout.params = <<C20_Root("name"), C20_Root("i"),
                             C20_Root("name"), C20_Root("i")>>
    /\ (rout.done /\ rin.t = 6)
       => /\ rout.err = ""
          /\ SubSeq(rout.sql, 1, 3) = <<"select ", "id, name = ", "?">>
          /\ rout.sql[Len(rout.sql)] = " from users"
          /\ rout.params[1] = C20_Root("name")

\* The nested include has been rendered with two different parameter values.
C21_Witness ==
    /\ rout.done /\ rin.t = 11 /\ rin.root.map
    /\ rin.root.m["name"] = Str("tom") /\ rin.root.m["i"] = Str("root")
    /\ Len(rout.params) = 4

StatementRan == ~fin.x.fetch.fail /\ fin.x.tx \in {"none", fin.x.engine}

\* C23: create returns an error whenever its statement has run and yielded
\* no row, and otherwise what decoding the first row into T gives (never a
\* later row, never a default); on the pool and on a transaction's
\* connection, for mysql, sqlite and postgres alike.
C23_Create ==
    (fout.done /\ fin.fn = "create" /\ StatementRan)
    => IF Len(fin.x.fetch.rows) = 0
         THEN ~fout.y.ok /\ fout.y.e = "Create did not return a row"
         ELSE LET first == fin.x.fetch.rows[1]
              IN IF first.de THEN fout.y = Ok(first.id) ELSE ~fout.y.ok

\* create has met zero rows inside a transaction; and two rows on the pool.
C23_Witness ==
    /\ fout.done /\ fin.fn = "create" /\ StatementRan
    /\ fin.x.tx = "postgres" /\ fin.x.fetch.rows = <<>> /\ ~fout.y.ok
C23_WitnessFirstRow ==
    /\ fout.done /\ fin.fn = "create" /\ StatementRan
    /\ fin.x.tx = "none" /\ Len(fin.x.fetch.rows) = 2
    /\ fin.x.fetch.rows[1].id # fin.x.fetch.rows[2].id /\ fout.y.ok

\* ------------------------------------------------ claims on batch_create
\* An item of fiber f's batch_create has run in this step.
BatchItem(f) ==
    /\ op[f] = "batch_create" /\ pc[f] \in {"pool", "exec"}
    /\ pc'[f] \in {"next", "idle"}

\* C24: batch_create runs its creates one after another: an item that
\* succeeds is followed by the next one, the call returns Ok after the last
\* one only, and an item that fails ends the call with its error, no later
\* item being run.  Outside a transaction every item that succeeded is
\* persisted at once and stays so whatever happens to later items; inside a
\* transaction nothing is persisted by the items, and a rollback persists
\* nothing.
C24_Batch ==
    [][/\ \A f \in Fibers :
            BatchItem(f)
            => /\ pc'[f] = "next" => (left[f] > 1 /\ left'[f] = left[f] - 1)
               /\ (pc'[f] = "idle" /\ last'.f = f /\ last'.r = "Ok") => left[f] = 1
               /\ (pc'[f] = "idle" /\ last'.f = f /\ last'.r # "Ok") => left'[f] = 0
               /\ (pc[f] = "pool" /\ (pc'[f] = "next" \/ last'.r = "Ok"))
                  => unitOf[f] \in db'[Handles[hd[f]].pool]
               /\ (pc[f] = "exec" /\ inTx[arc[f]]) => db' = db
       /\ \A q \in Pools : db[q] \subseteq db'[q]
       /\ \A f \in Fibers :
            (pc[f] = "exec" /\ op[f] = "rollback" /\ pc'[f] = "idle") => db' = db]_vars

\* -------------------------------- claims on the unrecognized engine kind
\* A call on a handle of DbPoolInner::Other has ended in this step.
OtherEnded == last'.f # 0 /\ last'.op = "crud" /\ Handles[last'.h].kind = "other"

\* C25: on a handle of unrecognized engine kind get, list, create,
\* batch_create, update and delete (the calls that end without a panic: only
\* execute_raw reaches dispatch_db) return the configuration error
\* "Unsupported database type" and touch neither a connection nor the
\* database, whatever their arguments, an empty batch included.
C25_OtherRejects ==
    [][(OtherEnded /\ last'.r # "Panic")
       => /\ last'.r = "ErrUnsupported"
          /\ UNCHANGED <<idle, inTx, pending, db, TRANSACTION_CONTEXT>>]_vars

\* C26: execute_raw on a handle of unrecognized engine kind returns a result
\* to its caller: the call does not end in a panic and the task that made it
\* lives on.
C26_RawOnOther ==
    [][OtherEnded
       => /\ last'.r # "Panic"
          /\ \A g \in FibersOf(unitOf[last'.f]) : pc'[g] # "dead"]_vars

\* ---------------------------------------------- claims on row decoding
\* The cell decoded in fin, and what came of the decoding itself (inside
\* Some(..) for an optional field).
C27_Cell == fin.x.cell
C27_Got(g) == g \in fin.x.cell.got
C27_Value == IF fin.x.opt /\ ~fin.x.cell.null THEN fout.y.inner ELSE fout.y

C28_Kind ==
    [Null |-> "Null", Bool |-> "Bool", I16 |-> "I16", I32 |-> "I32", I64 |-> "I64",
     U8 |-> "U8", F64 |-> "F64", Str |-> "String", Bytes |-> "Bytes", Date |-> "Date",
     Time |-> "Time", DateTime |-> "DateTime", DateTimeUtc |-> "DateTimeUtc",
     Decimal |-> "Decimal"]

\* C28: value_to_param turns every scalar Value into the SqlParam of the same
\* kind with the same payload, and gives no parameter for a List or a Map: it
\* aborts (unreachable!).
C28_ValueToParam ==
    (fout.done /\ fin.fn = "value_to_param")
    => IF fin.x.tag \in {"List", "Map"}
         THEN fout.y.tag = "unreachable"
         ELSE fout.y = [tag |-> C28_Kind[fin.x.tag], v |-> fin.x.v]

\* A 16-bit integer has been converted.
C28_Witness ==
    /\ fout.done /\ fin.fn = "value_to_param"
    /\ fin.x.tag = "I16" /\ fin.x.v = "1" /\ fout.y.tag = "I16"

\* The statement elements a directory holds for loading: <<i, j>> is child j
\* of file i, a *.xml mapper document.
C29_Elements(dir) ==
    {p \in UNION {{<<i, j>> : j \in DOMAIN dir[i].nodes} : i \in DOMAIN dir} :
        /\ dir[p[1]].ext = "xml" /\ dir[p[1]].valid
        /\ dir[p[1]].nodes[p[2]].tag \in StatementTags}
\* Two of them in one namespace under one id.
C29_Duplicates(dir) ==
    {pq \in C29_Elements(dir) \X C29_Elements(dir) :
        /\ pq[1] # pq[2]
        /\ dir[pq[1][1]].namespace = dir[pq[2][1]].namespace
        /\ dir[pq[1][1]].nodes[pq[1][2]].id = dir[pq[2][1]].nodes[pq[2][2]].id}

\* C29: parse_mappers_recursively returns an error whenever two statement
\* elements loaded into the same namespace carry the same id, in one file or
\* in different files of the directory; where every *.xml file is a mapper
\* document the error is the duplicate-id error and names such an id and its
\* namespace.
C29_DuplicateId ==
    (fout.done /\ fin.fn = "parse_mappers" /\ C29_Duplicates(fin.x) # {})
        => /\ ~fout.y.ok
           /\ (\A i \in DOMAIN fin.x : fin.x[i].valid)
                => /\ fout.y.e.msg = "duplicate id"
                   /\ \E pq \in C29_Duplicates(fin.x) :
                         /\ fin.x[pq[1][1]].namespace = fout.y.e.namespace
                         /\ fin.x[pq[1][1]].nodes[pq[1][2]].id = fout.y.e.id

\* Two files of one namespace, each free of duplicates, share an id; the load
\* fails on it.
C29_Witness ==
    /\ fout.done /\ fin.fn = "parse_mappers" /\ Len(fin.x) = 2
    /\ \A i \in DOMAIN fin.x : fin.x[i].ext = "xml" /\ fin.x[i].valid
    /\ C29_Duplicates(fin.x) # {}
    /\ \A pq \in C29_Duplicates(fin.x) : pq[1][1] # pq[2][1]
    /\ ~fout.y.ok /\ fout.y.e.msg = "duplicate id"

\* A directory free of duplicates and of broken files loads.
C29_WitnessLoads ==
    /\ fout.done /\ fin.fn = "parse_mappers" /\ Len(fin.x) = 2
    /\ \A i \in DOMAIN fin.x : fin.x[i].valid /\ Len(fin.x[i].nodes) = 2
    /\ fin.x[1].namespace = fin.x[2].namespace
    /\ C29_Duplicates(fin.x) = {}
    /\ fout.y.ok

\* The client has at least one registered connection.
C30_Registered(cli) == ConnsOf(CONN_MGR, cli) # {}
\* send_message is called in this step, and for which client.
C30_Called == sending = NoSend /\ (sending' # NoSend \/ wlast'.op = "send_message")
C30_Client == IF sending' # NoSend THEN sending'.cli ELSE wlast'.cli

\* C30: send_message(cli_id, body) returns the 'Client not found' error, and
\* changes nothing in the connection manager, exactly when cli_id has no
\* registered connection at the time of the call; called for a client of at
\* least one registered connection it returns Ok and nothing else.
C30_SendMessage ==
    [][/\ C30_Called =>
            IF C30_Registered(C30_Client)
              THEN (sending' # NoSend /\ sending'.cli = C30_Client)
                   \/ (wlast'.op = "send_message" /\ wlast'.res.ok)
              ELSE /\ wlast' = [op |-> "send_message", cli |-> C30_Client,
                                res |-> Err("Client not found")]
                   /\ UNCHANGED <<CONN_MGR, chan, sending>>
       /\ (sending # NoSend /\ sending' # sending) =>
            \/ sending' # NoSend /\ sending'.cli = sending.cli /\ wlast'.op = "none"
            \/ sending' = NoSend
                  /\ wlast' = [op |-> "send_message", cli |-> sending.cli,
                               res |-> Ok(sending.body)]
      ]_vars

\* A client whose connections were all removed is sent a message: the call
\* fails with 'Client not found'.
C30_Witness ==
    /\ wlast.op = "send_message" /\ ~wlast.res.ok
    /\ wlast.res.e = "Client not found"
    /\ \E c \in ConnIds : chan[c].cli = wlast.cli
    /\ ~C30_Registered(wlast.cli)

\* A client that still has a connection is sent a message: Ok.
C30_WitnessOk ==
    /\ wlast.op = "send_message" /\ wlast.res.ok
    /\ C30_Registered(wlast.cli)

\* C31: in every reachable state a connection that is back in the pool has
\* no open transaction.
C31_PooledClean == \A c \in idle : ~inTx[c]

C34_FailedCreateKeepsNothing ==
    [][\A f \in Fibers :
         (/\ pc[f] \in {"exec", "pool"} /\ op[f] \in {"create", "batch_create"}
          /\ last'.f = f /\ last'.r = "ErrNoRow")
         => db' = db]_vars

\* C33: a call through a handle executes only on a connection taken from
\* that handle's own pool: a statement that a CRUD call runs under the guard
\* of a transaction's connection runs on a connection of the pool of the
\* handle the call was made through.
C33_OwnPool ==
    [][\A f \in Fibers :
         (/\ pc[f] = "exec" /\ op[f] \in CrudKinds
          /\ last'.f = f /\ last'.c # NoConn)
         => PoolOf(last'.c) = Handles[hd[f]].pool]_vars

\* C35: of the callers that close one registered name concurrently exactly
\* one gets true, and the pool is closed exactly once: a close that ends
\* with pool.close() returns true for a pool that no other close has closed
\* or is closing, and a close returns false only when the map held no entry
\* under the name.  A by(name) returns the whole handle the map holds at
\* that moment, or nothing.
C35_CloseOnce ==
    [][/\ \A c \in RegCallers :
            (rpc[c] = "closing" /\ rpc'[c] = "idle")
            => /\ rlast'.c = c /\ rlast'.op = "close" /\ rlast'.r = "true"
               /\ rarg[c].h \notin closed
               /\ \A d \in RegCallers \ {c} :
                     rpc[d] = "closing" => rarg[d].h # rarg[c].h
       /\ (rlast'.op = "close" /\ rlast'.r = "false" /\ rlast' # rlast)
            => DBS[rlast'.n] = NoPool
       /\ (rlast'.op = "by" /\ rlast' # rlast)
            => /\ rlast'.h = DBS[rlast'.n]
               /\ rlast'.r = (IF rlast'.h = NoPool THEN "None" ELSE "Some")
               /\ rlast'.h # NoPool
                    => rlast'.h.name = rlast'.n /\ rlast'.h.id \in 1 .. made
      ]_vars

\* Two callers close one name at the same time: the second is told false
\* while the first, which took the entry, is still closing the pool.
C35_Witness ==
    /\ rlast.op = "close" /\ rlast.r = "false"
    /\ \E c \in RegCallers \ {rlast.c} :
          rpc[c] = "closing" /\ rarg[c].n = rlast.n

\* The connection ids add_connection has handed out so far.
C39_Returned == {c \in ConnIds : chan[c].cli # 0}
\* No client entry is empty, every registered id is below next_conn_id and
\* registered under one client only.
C39_WellFormed ==
    /\ \A cli \in DOMAIN CONN_MGR.connections :
          /\ CONN_MGR.connections[cli] # {}
          /\ \A c \in CONN_MGR.connections[cli] : c < CONN_MGR.next_conn_id
    /\ \A k1, k2 \in DOMAIN CONN_MGR.connections :
          k1 # k2 => CONN_MGR.connections[k1] \cap CONN_MGR.connections[k2] = {}

\* C39: after any sequence of add_connection, remove_connection and
\* send_message the manager holds no client entry with an empty connection
\* set, every registered connection id is smaller than next_conn_id and
\* registered under exactly one client, and add_connection never returns an
\* id it returned before.
C39_Ids ==
    [][/\ (sending' = NoSend => C39_WellFormed')
       /\ (wlast'.op = "add_connection" /\ CONN_MGR' # CONN_MGR)
            => /\ wlast'.res.v \notin C39_Returned
               /\ \A c \in C39_Returned : c < wlast'.res.v
               /\ wlast'.res.v \in ConnsOf(CONN_MGR', wlast'.cli)
      ]_vars

\* add_connection hands out a new id for one client after a lower id of the
\* other client was removed.
C39_Witness ==
    /\ wlast.op = "add_connection"
    /\ \E c \in C39_Returned :
          /\ c < wlast.res.v /\ chan[c].cli # wlast.cli
          /\ \A k \in Clients : c \notin ConnsOf(CONN_MGR, k)

\* C38: send_message on a registered client puts the body exactly once on the
\* channel of each connection registered for that client, removes exactly
\* the connections whose send failed, removes the client when no connection
\* is left, leaves the connections of all other clients unchanged, and
\* returns Ok also when every send failed.
C38_SendMessage ==
    [][/\ (sending = NoSend /\ sending' # NoSend)
            => /\ sending'.todo = ConnsOf(CONN_MGR, sending'.cli)
               /\ sending'.todo # {} /\ sending'.failed = {}
               /\ chan' = chan /\ CONN_MGR' = CONN_MGR
       /\ (sending # NoSend /\ sending' # sending)
            => LET s == sending
                   handled == IF sending' = NoSend THEN s.todo
                                                   ELSE s.todo \ sending'.todo
                   failed == s.failed \cup {c \in handled : ~chan[c].rx}
               IN
               /\ Cardinality(handled) = 1
               /\ \A c \in handled :
                     chan[c].rx => chan'[c] = [chan[c] EXCEPT !.q = Append(@, s.body)]
               /\ \A c \in ConnIds \ (handled \cup failed) : chan'[c] = chan[c]
               /\ IF sending' # NoSend
                    THEN /\ sending' = [s EXCEPT !.todo = @ \ handled, !.failed = failed]
                         /\ CONN_MGR' = CONN_MGR
                    ELSE /\ wlast' = [op |-> "send_message", cli |-> s.cli,
                                      res |-> Ok(s.body)]
                         /\ CONN_MGR'.next_conn_id = CONN_MGR.next_conn_id
                         /\ ConnsOf(CONN_MGR', s.cli) = ConnsOf(CONN_MGR, s.cli) \ failed
                         /\ s.cli \in DOMAIN CONN_MGR'.connections
                               <=> ConnsOf(CONN_MGR, s.cli) \ failed # {}
                         /\ \A k \in Clients \ {s.cli} :
                               /\ ConnsOf(CONN_MGR', k) = ConnsOf(CONN_MGR, k)
                               /\ k \in DOMAIN CONN_MGR'.connections
                                     <=> k \in DOMAIN CONN_MGR.connections
      ]_vars

\* send_message returned Ok although every send failed: the client is gone
\* from the manager while the other client is still registered.
C38_Witness ==
    /\ wlast.op = "send_message" /\ wlast.res = Ok("x")
    /\ wlast.cli \notin DOMAIN CONN_MGR.connections
    /\ Cardinality({c \in ConnIds : chan[c].cli = wlast.cli}) >= 2
    /\ \E k \in Clients \ {wlast.cli} : ConnsOf(CONN_MGR, k) # {}

\* The attempts a call of send_request with max_retries m is to make on the
\* outcomes resp: up to the first attempt that meets neither a 5xx response
\* nor a timeout, and m + 1 at most (k <= m + 1 is written k - 1 <= m).
C40_Expected(m, resp) ==
    LET stops == {k \in DOMAIN resp :
                    /\ u32_le(u32(k - 1), m)
                    /\ (resp[k] \notin {"5xx", "timeout"} \/ m = u32(k - 1))}
    IN IF stops = {} THEN 0 ELSE CHOOSE k \in stops : \A j \in stops : k <= j

\* C40: for every configured max_retries value m (any u32), send_request
\* performs at least 1 and at most m+1 attempts: it returns the first 2xx
\* response at once; it retries, after sleeping retry_delay, only after a
\* 5xx response or a timeout and only while fewer than m retries were made;
\* on any other response or error, and on the failure of attempt m+1, it
\* returns an error without a further attempt.
C40_Attempts ==
    (fout.done /\ fin.fn = "send_request")
    => LET m == fin.x.max_retries
           n == fout.y.attempts
       IN /\ ~fout.y.panic
          /\ n >= 1 /\ u32_le(u32(n - 1), m)
          /\ n = C40_Expected(m, fin.x.resp)
          /\ fout.y.sleeps = n - 1
          /\ fout.y.ok <=> fin.x.resp[n] = "2xx"

\* The same for the values of m whose m + 1 is a u32.
C40_AttemptsSmall ==
    (fout.done /\ fin.fn = "send_request" /\ fin.x.max_retries # U32Max)
    => LET m == fin.x.max_retries
           n == fout.y.attempts
       IN /\ ~fout.y.panic
          /\ n >= 1 /\ u32_le(u32(n - 1), m)
          /\ n = C40_Expected(m, fin.x.resp)
          /\ fout.y.sleeps = n - 1
          /\ fout.y.ok <=> fin.x.resp[n] = "2xx"

\* C36: whichever way handle_connection ends (client close frame, receive
\* error, end of the receive stream, ping timeout, failed ping enqueue, or a
\* failed send on the socket), when it returns the connection is no longer
\* registered in the connection manager and the close handler, when one is
\* given, has been invoked exactly once.
C36_CleanReturn ==
    \A c \in ConnIds :
       hc[c].st = "done"
       => /\ c \notin ConnsOf(CONN_MGR, chan[c].cli)
          /\ hc[c].handler => hc[c].closes = 1

\* The same for the calls that end in the ping task or the receive task.
C36_CleanupReturn ==
    [][\A c \in ConnIds :
         (hc[c].st = "run" /\ hc'[c].st = "done" /\ CONN_MGR' # CONN_MGR)
         => /\ c \notin ConnsOf(CONN_MGR', chan[c].cli)
            /\ hc[c].handler => hc'[c].closes = 1]_vars

\* C37: send_message always eventually returns, and one connection whose
\* outbound channel is full and whose socket accepts no more writes never
\* blocks forever the other users of the global manager lock: the tasks
\* waiting for it in the ping and receive cleanup get it.
C37_NoBlocking ==
    /\ (sending # NoSend) ~> (sending = NoSend)
    /\ \A c \in ConnIds : (hc[c].waiting # {}) ~> (hc[c].st = "done")

\* The same while no peer stops reading.
C37_NoBlockingUnstalled ==
    \/ <>(\E c \in ConnIds : hc[c].stalled)
    \/ /\ (sending # NoSend) ~> (sending = NoSend)
       /\ \A c \in ConnIds : (hc[c].waiting # {}) ~> (hc[c].st = "done")

====
